---- MODULE Spec2Model ----
(***************************************************************************)
(* A model of the weather Telegram bot: the JSON user store (storage.py),  *)
(* the OpenWeather client (weather_app.py) and the conversation handlers   *)
(* and notification loop (bot.py).                                         *)
(*                                                                         *)
(* Several specifications share the variables below; each one moves only   *)
(* the variables of the component it exercises:                            *)
(*   SpecStore  the store's API called directly, with I/O faults           *)
(*   SpecRace   a foreground save racing the notification loop's save      *)
(*   SpecApi    WeatherAPI._make_request with its cache, over time         *)
(*   SpecRetry  WeatherAPI._make_request over every script of answers      *)
(*   SpecSweep  the notification loop against a clock                      *)
(*   Spec       the foreground handlers (texts, locations, callbacks)      *)
(*   SpecSettings  the notification settings of users with stored records  *)
(*   SpecWorker  the notification thread under fair scheduling            *)
(*   SpecNotify  the settings handlers next to the notification loop       *)
(*   SpecInline  inline queries among city lookups                         *)
(*   SpecRender  the day selector, air-quality tiers and wind direction    *)
(*   SpecSpacing  the notification loop with a store whose writes may fail *)
(*   SpecIsolation  every kind of event from two users                     *)
(*   SpecCoords  forecast and extended-data requests over stored places    *)
(***************************************************************************)
EXTENDS Integers, Sequences, FiniteSets, TLC

VARIABLES
    disk,         \* User_Data.json and its .backup / .corrupted siblings
    ret,          \* the last call made and what it returned (observation)
    pc,           \* SpecRace: where each thread is in its store call
    loc,          \* SpecRace: each thread's local variables
    job,          \* SpecRace: the store call each thread makes
    hist,         \* SpecRace: which calls overlapped, who wrote last (observation);
                  \* SpecSpacing: per user, when the last notification went out
    cache,        \* SpecApi: the weather client's cache, per cache key
    fetched,      \* SpecApi: per key, the last response the provider gave (observation)
    last,         \* SpecApi: the last request and its outcome (observation)
    clock,        \* SpecSweep: the wall clock, in milliseconds
    sweep,        \* SpecSweep: the notification loop's position and locals
    user_states,  \* Spec: WeatherBot.user_states, the dialog state per user
    out           \* Spec: the last event handled and what the bot sent (observation)

storeVars == <<disk, ret>>
raceVars == <<pc, loc, job, hist>>
apiVars == <<cache, fetched, last>>
sweepVars == <<clock, sweep>>
botVars == <<user_states, out>>
vars ==
    <<disk, ret, pc, loc, job, hist, cache, fetched, last, clock, sweep,
      user_states, out>>

\* what the actions of one specification leave alone
outsideStore == <<raceVars, apiVars, sweepVars, botVars>>
outsideRace == <<ret, apiVars, sweepVars, botVars>>
outsideApi == <<storeVars, raceVars, sweepVars, botVars>>
outsideSweep == <<ret, raceVars, fetched, last, botVars>>
outsideBot == <<ret, raceVars, fetched, last, sweepVars>>

(***************************************************************************)
(* Values                                                                  *)
(***************************************************************************)
Users == {1, 2}

\* str(user_id): the record key of a user
UserKey(u) == ToString(u)

\* {}: a dict without keys (an empty user record, an empty document)
EmptyRec == [k \in {} |-> TRUE]
EmptyDoc == [k \in {} |-> EmptyRec]

\* dict.update(d): a shallow merge, d's top-level keys win
DictUpdate(r, d) ==
    [k \in (DOMAIN r) \cup (DOMAIN d) |-> IF k \in DOMAIN d THEN d[k] ELSE r[k]]

\* a file's content: absent, a JSON object, JSON that is no object, or text
\* that does not parse (tag tells two unparsable texts apart)
MissingFile == [kind |-> "missing", doc |-> EmptyDoc, tag |-> ""]
JsonFile(doc) == [kind |-> "json", doc |-> doc, tag |-> ""]
NonDictFile == [kind |-> "nondict", doc |-> EmptyDoc, tag |-> ""]
GarbageFile(tag) == [kind |-> "garbage", doc |-> EmptyDoc, tag |-> tag]

\* the I/O outcomes of one store call. write: "ok", "open" (open(..., 'w')
\* raises: nothing is touched) or "dump" (the file was opened, hence
\* truncated, and json.dump or the closing flush raises)
NoFault ==
    [write |-> "ok", backupFails |-> FALSE, renameFails |-> FALSE,
     readFails |-> FALSE, createFails |-> FALSE]

(***************************************************************************)
(* storage.py                                                              *)
(***************************************************************************)
\* UserStorage._ensure_file_exists
_ensure_file_exists(d, env) ==
    IF d.main.kind = "missing" /\ ~env.createFails
    THEN [d EXCEPT !.main = JsonFile(EmptyDoc)]
    ELSE d

\* a reset that deletes the unreadable file instead of renaming it
BackupAndResetDeletes(d, env) ==
    _ensure_file_exists([d EXCEPT !.main = MissingFile], env)

\* UserStorage._backup_and_reset
_backup_and_reset(d, env) ==
    LET renamed == IF d.main.kind # "missing" /\ ~env.renameFails
                   THEN [d EXCEPT !.corrupted = d.main, !.main = MissingFile]
                   ELSE d
    IN _ensure_file_exists(renamed, env)

\* UserStorage._load_data: the document read, and the disk afterwards
_load_data(d, env) ==
    CASE d.main.kind = "missing" -> [data |-> EmptyDoc, disk |-> d]
      [] d.main.kind # "missing" /\ env.readFails -> [data |-> EmptyDoc, disk |-> d]
      [] d.main.kind = "json" /\ ~env.readFails -> [data |-> d.main.doc, disk |-> d]
      [] d.main.kind = "nondict" /\ ~env.readFails -> [data |-> EmptyDoc, disk |-> d]
      [] d.main.kind = "garbage" /\ ~env.readFails ->
            [data |-> EmptyDoc, disk |-> _backup_and_reset(d, env)]

\* the backup copy at the head of _save_data (best effort)
BackupCopy(d, env) ==
    IF d.main.kind # "missing" /\ ~env.backupFails
    THEN [d EXCEPT !.backup = d.main]
    ELSE d

\* a save that copies the document to .backup after writing it
SaveBacksUpAfterWrite(d, data, env) ==
    CASE env.write = "ok" ->
            [ok |-> TRUE, disk |-> BackupCopy([d EXCEPT !.main = JsonFile(data)], env)]
      [] env.write = "open" -> [ok |-> FALSE, disk |-> d]
      [] env.write = "dump" ->
            [ok |-> FALSE, disk |-> [d EXCEPT !.main = GarbageFile("partial")]]

\* UserStorage._save_data: the success flag, and the disk afterwards
_save_data(d, data, env) ==
    LET b == BackupCopy(d, env)
    IN CASE env.write = "ok" -> [ok |-> TRUE, disk |-> [b EXCEPT !.main = JsonFile(data)]]
         [] env.write = "open" -> [ok |-> FALSE, disk |-> b]
         [] env.write = "dump" ->
               [ok |-> FALSE, disk |-> [b EXCEPT !.main = GarbageFile("partial")]]

\* UserStorage.load_user
load_user(d, u, env) ==
    LET l == _load_data(d, env)
    IN [data |-> IF UserKey(u) \in DOMAIN l.data THEN l.data[UserKey(u)] ELSE EmptyRec,
        disk |-> l.disk]

\* a save that replaces the user's record instead of merging into it
MergeUserReplaces(all_data, u, data) ==
    [k \in (DOMAIN all_data) \cup {UserKey(u)} |->
        IF k = UserKey(u) THEN data ELSE all_data[k]]

\* a save that writes a document holding the user's record alone
MergeUserAlone(all_data, u, data) ==
    [k \in {UserKey(u)} |->
        IF k \in DOMAIN all_data THEN DictUpdate(all_data[k], data) ELSE data]

\* the merge step of save_user: update the record, or create it
MergeUser(all_data, u, data) ==
    IF UserKey(u) \in DOMAIN all_data
    THEN [all_data EXCEPT ![UserKey(u)] = DictUpdate(all_data[UserKey(u)], data)]
    ELSE [k \in (DOMAIN all_data) \cup {UserKey(u)} |->
             IF k = UserKey(u) THEN data ELSE all_data[k]]

\* UserStorage.save_user
save_user(d, u, data, env) ==
    LET l == _load_data(d, env)
    IN _save_data(l.disk, MergeUser(l.data, u, data), env)

\* UserStorage.load_all
load_all(d, env) == _load_data(d, env)

\* last_sent=None, the default of update_user_notification
NoTime == -1

\* an update that forgets the last_sent it was given
NotifUpdateDropsLastSent(user_data, enabled, interval_h, last_sent) ==
    LET old == IF "notifications" \in DOMAIN user_data
               THEN user_data.notifications ELSE EmptyRec
    IN DictUpdate(user_data, [notifications |->
          DictUpdate(old, [enabled |-> enabled, interval_h |-> interval_h])])

\* the record update_user_notification builds from the loaded one
NotifUpdate(user_data, enabled, interval_h, last_sent) ==
    LET old == IF "notifications" \in DOMAIN user_data
               THEN user_data.notifications ELSE EmptyRec
        set == DictUpdate(old, [enabled |-> enabled, interval_h |-> interval_h])
        new == IF last_sent # NoTime
               THEN DictUpdate(set, [last_sent |-> last_sent]) ELSE set
    IN DictUpdate(user_data, [notifications |-> new])

\* UserStorage.update_user_notification
update_user_notification(d, u, enabled, interval_h, last_sent, env) ==
    LET l == load_user(d, u, env)
    IN save_user(l.disk, u, NotifUpdate(l.data, enabled, interval_h, last_sent), env)

\* UserStorage.update_user_location
update_user_location(d, u, city, lat, lon, env) ==
    LET l == load_user(d, u, env)
    IN save_user(l.disk, u, DictUpdate(l.data, [city |-> city, lat |-> lat, lon |-> lon]), env)

(***************************************************************************)
(* SpecStore: the store's API called directly                              *)
(***************************************************************************)
\* the updates saved: two with disjoint fields, a third overlapping the first
StoreUpdates ==
    { [city |-> "Paris"], [last_city |-> "Tokyo"], [city |-> "Tokyo"] }

\* the faults of a save: the write and the backup copy
SaveFaults ==
    { [NoFault EXCEPT !.write = w, !.backupFails = b] :
        w \in {"ok", "open", "dump"}, b \in BOOLEAN }

NoCall == [op |-> "none", user |-> 0, data |-> EmptyRec, ok |-> TRUE, rec |-> EmptyRec]

\* the other components at rest
RaceIdle ==
    /\ pc = [t \in {} |-> ""]
    /\ loc = [t \in {} |-> EmptyRec]
    /\ job = [t \in {} |-> EmptyRec]
    /\ hist = EmptyRec

ApiIdle ==
    /\ cache = EmptyRec
    /\ fetched = EmptyRec
    /\ last = EmptyRec

SweepIdle ==
    /\ clock = 0
    /\ sweep = EmptyRec

BotIdle ==
    /\ user_states = EmptyRec
    /\ out = EmptyRec

StoreInit ==
    /\ disk = [main |-> JsonFile(EmptyDoc), backup |-> MissingFile, corrupted |-> MissingFile]
    /\ ret = NoCall
    /\ RaceIdle
    /\ ApiIdle
    /\ SweepIdle
    /\ BotIdle

StSaveUser(u, data, env) ==
    LET r == save_user(disk, u, data, env)
    IN /\ disk' = r.disk
       /\ ret' = [op |-> "save_user", user |-> u, data |-> data, ok |-> r.ok, rec |-> EmptyRec]
       /\ UNCHANGED outsideStore

StLoadUser(u) ==
    LET r == load_user(disk, u, NoFault)
    IN /\ disk' = r.disk
       /\ ret' = [op |-> "load_user", user |-> u, data |-> EmptyRec, ok |-> TRUE, rec |-> r.data]
       /\ UNCHANGED outsideStore

\* the document is damaged from outside the program
StDamage ==
    /\ disk.main.kind = "json"
    /\ disk' = [disk EXCEPT !.main = GarbageFile("junk")]
    /\ ret' = [NoCall EXCEPT !.op = "damage"]
    /\ UNCHANGED outsideStore

StoreNext ==
    \/ \E u \in Users, data \in StoreUpdates, env \in SaveFaults : StSaveUser(u, data, env)
    \/ \E u \in Users : StLoadUser(u)
    \/ StDamage

SpecStore == StoreInit /\ [][StoreNext]_vars

\* the records a file holds for a reader
Records(f) == IF f.kind = "json" THEN f.doc ELSE EmptyDoc

\* the keys of user u's record in document doc
KeysOf(doc, u) == IF UserKey(u) \in DOMAIN doc THEN DOMAIN doc[UserKey(u)] ELSE {}

(* C5: a successful save_user(u, d) on a readable document merges: the     *)
(* stored record of u has every key of d with d's value and every other    *)
(* key of the old record with its old value, and nothing else; every other *)
(* user's record is unchanged.                                             *)
C5_SaveMerges ==
    [][ (ret'.op = "save_user" /\ ret'.ok /\ disk.main.kind = "json") =>
          LET u == ret'.user
              d == ret'.data
              old == disk.main.doc
              new == disk'.main.doc
          IN /\ disk'.main.kind = "json"
             /\ DOMAIN new = (DOMAIN old) \cup {UserKey(u)}
             /\ DOMAIN new[UserKey(u)] = (DOMAIN d) \cup KeysOf(old, u)
             /\ \A k \in DOMAIN d : new[UserKey(u)][k] = d[k]
             /\ \A k \in KeysOf(old, u) \ DOMAIN d :
                    new[UserKey(u)][k] = old[UserKey(u)][k]
             /\ \A o \in (DOMAIN old) \ {UserKey(u)} : new[o] = old[o]
      ]_storeVars

\* the third save of the scenario has acted: Paris and Tokyo were stored by
\* two disjoint saves (the backup holds the document as it was), the save of
\* city = Tokyo overwrote city alone, and user 2's record is still there
C5_Witness ==
    /\ ret.op = "save_user" /\ ret.ok /\ ret.user = 1 /\ ret.data = [city |-> "Tokyo"]
    /\ disk.backup.kind = "json" /\ disk.main.kind = "json"
    /\ DOMAIN disk.backup.doc = {"1", "2"}
    /\ disk.backup.doc["1"] = [city |-> "Paris", last_city |-> "Tokyo"]
    /\ disk.main.doc["1"] = [city |-> "Tokyo", last_city |-> "Tokyo"]
    /\ disk.main.doc["2"] = disk.backup.doc["2"]

(* C6: load_user returns an empty record for a user the document does not  *)
(* hold; when the document does not parse it returns an empty record, the  *)
(* unreadable file is kept with its content as the .corrupted sibling, the *)
(* document is recreated empty, and a later load of any user returns an    *)
(* empty record again.                                                     *)
C6_LoadNeverFails ==
    [][ ret'.op = "load_user" =>
          /\ (disk.main.kind = "json" /\ UserKey(ret'.user) \notin DOMAIN disk.main.doc)
                => (ret'.rec = EmptyRec /\ disk' = disk)
          /\ disk.main.kind = "garbage"
                => /\ ret'.rec = EmptyRec
                   /\ disk'.corrupted = disk.main
                   /\ disk'.main = JsonFile(EmptyDoc)
                   /\ \A v \in Users : load_user(disk', v, NoFault).data = EmptyRec
      ]_storeVars

\* a load after the damage: the user had a record (the backup still shows
\* it), the junk is now the .corrupted sibling and the document is empty
C6_Witness ==
    /\ ret.op = "load_user" /\ ret.rec = EmptyRec
    /\ disk.corrupted = GarbageFile("junk")
    /\ disk.main = JsonFile(EmptyDoc)
    /\ disk.backup.kind = "json" /\ UserKey(ret.user) \in DOMAIN disk.backup.doc

(* C7: a save_user that reports false leaves the stored document holding   *)
(* exactly the records it held before the call.                            *)
C7_FailedSaveNoEffect ==
    [][ (ret'.op = "save_user" /\ ~ret'.ok) =>
          Records(disk'.main) = Records(disk.main) ]_storeVars

(***************************************************************************)
(* SpecRace: a foreground handler's save_user (handle_city_weather storing *)
(* last_city) races the notification loop's update_user_notification       *)
(* (storing last_sent). Neither takes a lock; every file operation of a    *)
(* call is a step of its own.                                              *)
(***************************************************************************)
Threads == {"fg", "bg"}
Other(t) == IF t = "fg" THEN "bg" ELSE "fg"

\* the document both calls start from
RaceDoc ==
    [k \in {UserKey(u) : u \in Users} |->
        [city |-> "Paris", notifications |-> [enabled |-> TRUE, interval_h |-> 2]]]

\* handle_city_weather: save_user(user_id, {'last_city': ...})
FgJob(u) ==
    [op |-> "save_user", user |-> u, data |-> [last_city |-> "Tokyo"],
     enabled |-> TRUE, interval_h |-> 2, last_sent |-> NoTime]

\* _send_notification: update_user_notification(user_id, True, interval_h, now)
BgJob(u, now) ==
    [op |-> "update_user_notification", user |-> u, data |-> EmptyRec,
     enabled |-> TRUE, interval_h |-> RaceDoc[UserKey(u)].notifications.interval_h,
     last_sent |-> now]

NoLocals ==
    [user_data |-> EmptyRec, all_data |-> EmptyDoc, ok |-> FALSE,
     fdMoved |-> FALSE, dirty |-> FALSE]

RaceInit ==
    /\ disk = [main |-> JsonFile(RaceDoc), backup |-> MissingFile, corrupted |-> MissingFile]
    /\ ret = NoCall
    /\ \E u \in Users, v \in Users, now \in {3600, 7200} :
          job = [t \in Threads |-> IF t = "fg" THEN FgJob(u) ELSE BgJob(v, now)]
    /\ pc = [t \in Threads |-> "call"]
    /\ loc = [t \in Threads |-> NoLocals]
    /\ hist = [overlap |-> FALSE, lastWriter |-> "none", reset |-> FALSE]
    /\ ApiIdle
    /\ SweepIdle
    /\ BotIdle

\* a reader that finds the document unparsable renames it: a writer that
\* holds it open keeps writing to the renamed file
MoveWriters(lc, t, d) ==
    IF d.main.kind = "garbage"
    THEN [o \in Threads |->
            IF o # t /\ pc[o] = "dump" THEN [lc[o] EXCEPT !.fdMoved = TRUE] ELSE lc[o]]
    ELSE lc

\* the call starts; it overlaps the other one when that one is under way
RCall(t) ==
    /\ pc[t] = "call"
    /\ pc' = [pc EXCEPT ![t] = IF job[t].op = "save_user" THEN "save_load" ELSE "load_user"]
    /\ loc' = [loc EXCEPT ![t].user_data = job[t].data]
    /\ hist' = [hist EXCEPT !.overlap = @ \/ pc[Other(t)] \notin {"call", "done"}]
    /\ UNCHANGED <<disk, job, outsideRace>>

\* update_user_notification: user_data = self.load_user(user_id), then the
\* notification fields are set in it
RLoadUser(t) ==
    /\ pc[t] = "load_user"
    /\ LET l == load_user(disk, job[t].user, NoFault)
           moved == MoveWriters(loc, t, disk)
       IN /\ disk' = l.disk
          /\ loc' = [moved EXCEPT ![t].user_data =
                        NotifUpdate(l.data, job[t].enabled, job[t].interval_h, job[t].last_sent)]
          /\ hist' = [hist EXCEPT !.reset = @ \/ disk.main.kind = "garbage"]
    /\ pc' = [pc EXCEPT ![t] = "save_load"]
    /\ UNCHANGED <<job, outsideRace>>

\* save_user: all_data = self._load_data(), then the merge
RSaveLoad(t) ==
    /\ pc[t] = "save_load"
    /\ LET l == _load_data(disk, NoFault)
           moved == MoveWriters(loc, t, disk)
       IN /\ disk' = l.disk
          /\ loc' = [moved EXCEPT ![t].all_data = MergeUser(l.data, job[t].user, loc[t].user_data)]
          /\ hist' = [hist EXCEPT !.reset = @ \/ disk.main.kind = "garbage"]
    /\ pc' = [pc EXCEPT ![t] = "backup"]
    /\ UNCHANGED <<job, outsideRace>>

\* _save_data: the backup copy
RBackup(t) ==
    /\ pc[t] = "backup"
    /\ disk' = BackupCopy(disk, NoFault)
    /\ pc' = [pc EXCEPT ![t] = "open"]
    /\ UNCHANGED <<loc, job, hist, outsideRace>>

\* _save_data: open(self.data_file, 'w') truncates the document
ROpen(t) ==
    /\ pc[t] = "open"
    /\ disk' = [disk EXCEPT !.main = GarbageFile("partial")]
    /\ loc' = [loc EXCEPT ![t].fdMoved = FALSE, ![t].dirty = FALSE]
    /\ pc' = [pc EXCEPT ![t] = "dump"]
    /\ UNCHANGED <<job, hist, outsideRace>>

\* _save_data: json.dump and close, into the file that was opened. A writer
\* whose file was written by the other one since it opened it may leave the
\* other's longer tail behind its own text: content is then one of the two.
RDump(t, content) ==
    /\ pc[t] = "dump"
    /\ content \in IF loc[t].dirty
                   THEN {JsonFile(loc[t].all_data), GarbageFile("mixed")}
                   ELSE {JsonFile(loc[t].all_data)}
    /\ disk' = IF loc[t].fdMoved THEN [disk EXCEPT !.corrupted = content]
                                 ELSE [disk EXCEPT !.main = content]
    /\ loc' = [o \in Threads |->
                 IF o = t THEN [loc[t] EXCEPT !.ok = TRUE]
                 ELSE IF pc[o] = "dump" /\ loc[o].fdMoved = loc[t].fdMoved
                      THEN [loc[o] EXCEPT !.dirty = TRUE]
                      ELSE loc[o]]
    /\ hist' = IF loc[t].fdMoved THEN hist ELSE [hist EXCEPT !.lastWriter = t]
    /\ pc' = [pc EXCEPT ![t] = "done"]
    /\ UNCHANGED <<job, outsideRace>>

RaceNext ==
    \E t \in Threads :
        \/ RCall(t)
        \/ RLoadUser(t)
        \/ RSaveLoad(t)
        \/ RBackup(t)
        \/ ROpen(t)
        \/ \E k \in {"json", "garbage"} :
              RDump(t, IF k = "json" THEN JsonFile(loc[t].all_data) ELSE GarbageFile("mixed"))

SpecRace == RaceInit /\ [][RaceNext]_vars

\* both calls have returned, each reporting success
BothSaved == \A t \in Threads : pc[t] = "done" /\ loc[t].ok

\* the update a call was to store is in the document
Stored(t, doc) ==
    /\ UserKey(job[t].user) \in DOMAIN doc
    /\ IF job[t].op = "save_user"
       THEN /\ "last_city" \in DOMAIN doc[UserKey(job[t].user)]
            /\ doc[UserKey(job[t].user)].last_city = job[t].data.last_city
       ELSE /\ "notifications" \in DOMAIN doc[UserKey(job[t].user)]
            /\ "last_sent" \in DOMAIN doc[UserKey(job[t].user)].notifications
            /\ doc[UserKey(job[t].user)].notifications.last_sent = job[t].last_sent

(* C8: a lost update is reachable (C8_Witness), and it is the interleaving *)
(* that loses it: when both calls have reported success and no reader took *)
(* the corruption path, the document holds the update of the call that     *)
(* wrote last, and holds both updates if the calls did not overlap.        *)
C8_LastWriteWins ==
    (BothSaved /\ ~hist.reset /\ disk.main.kind = "json") =>
        /\ Stored(hist.lastWriter, disk.main.doc)
        /\ ~hist.overlap => \A t \in Threads : Stored(t, disk.main.doc)

\* both calls reported success, no reader took the corruption path, and the
\* document lacks the last_city the foreground handler saved
C8_Witness ==
    /\ BothSaved /\ ~hist.reset /\ disk.main.kind = "json"
    /\ Stored("bg", disk.main.doc)
    /\ ~Stored("fg", disk.main.doc)

(***************************************************************************)
(* weather_app.py: WeatherAPI._make_request, with the cache and the retry  *)
(* primitive of the utilities                                              *)
(***************************************************************************)
\* a response body is "A" or "B" (a JSON object), "empty" (JSON that is
\* falsy in Python: {} or []); "none" is Python's None
Truthy(v) == v \notin {"none", "empty"}

\* one HTTP exchange: the status and the body; status 0 stands for a
\* transport error (requests.get raises: timeout, connection refused)
Response(status, body) == [status |-> status, body |-> body]

\* an attempt that gives up on a rate limit instead of raising for a retry
RequestNoRetryOn429(resp) ==
    CASE resp.status = 200 -> [raised |-> FALSE, value |-> resp.body]
      [] resp.status \in {404, 401, 429} -> [raised |-> FALSE, value |-> "none"]
      [] OTHER -> [raised |-> TRUE, value |-> "none"]

\* an attempt that hands back the body of a 404 or 401 response as data
RequestReturnsErrorBody(resp) ==
    CASE resp.status = 0 -> [raised |-> TRUE, value |-> "none"]
      [] resp.status = 429 -> [raised |-> TRUE, value |-> "none"]
      [] resp.status = 200 -> [raised |-> FALSE, value |-> resp.body]
      [] resp.status \in {404, 401} -> [raised |-> FALSE, value |-> "B"]
      [] OTHER -> [raised |-> TRUE, value |-> "none"]

\* the inner _request of _make_request: one attempt, which returns a value
\* or raises
_request(resp) ==
    CASE resp.status = 0 -> [raised |-> TRUE, value |-> "none"]
      [] resp.status = 429 -> [raised |-> TRUE, value |-> "none"]
      [] resp.status = 200 -> [raised |-> FALSE, value |-> resp.body]
      [] resp.status \in {404, 401} -> [raised |-> FALSE, value |-> "none"]
      [] OTHER -> [raised |-> TRUE, value |-> "none"]

\* max_attempts=3 in _make_request
MaxAttempts == 3

\* utils.retry_request: the operation is invoked until it returns, at most
\* max_attempts times; script[i] is the provider's answer to attempt i. When
\* the last attempt raises too there is no result (None, or the exception
\* the callers of _make_request turn into None).
RECURSIVE RetryFrom(_, _, _)
RetryFrom(script, i, max_attempts) ==
    IF i > max_attempts
    THEN [result |-> "none", attempts |-> max_attempts]
    ELSE IF _request(script[i]).raised
         THEN RetryFrom(script, i + 1, max_attempts)
         ELSE [result |-> _request(script[i]).value, attempts |-> i]

retry_request(script, max_attempts) == RetryFrom(script, 1, max_attempts)

\* the time-to-live of a cache entry, in clock ticks
CacheTTL == 2

\* cache_key = f"{lat}_{lon}_{endpoint_name}"
CacheKey(lat, lon, endpoint_name) == <<lat, lon, endpoint_name>>

NoEntry == [value |-> "none", age |-> 0]

\* utils.load_cache: the stored value if present and not expired
load_cache(c, key) ==
    IF key \in DOMAIN c /\ c[key].value # "none" /\ c[key].age < CacheTTL
    THEN c[key].value
    ELSE "none"

\* utils.save_cache: store the value, overwriting the key's entry
save_cache(c, key, value) ==
    [k \in (DOMAIN c) \cup {key} |-> IF k = key THEN [value |-> value, age |-> 0] ELSE c[k]]

\* a request that never stores the response it fetched
MakeRequestNeverSaves(c, endpoint_name, use_cache, pos, script) ==
    LET keyed == use_cache /\ pos # <<>>
        cached_data == IF keyed
                       THEN load_cache(c, CacheKey(pos[1], pos[2], endpoint_name))
                       ELSE "none"
    IN IF keyed /\ Truthy(cached_data)
       THEN [result |-> cached_data, cache |-> c, calls |-> 0, attempts |-> 0]
       ELSE [result |-> retry_request(script, MaxAttempts).result, cache |-> c,
             calls |-> 1, attempts |-> retry_request(script, MaxAttempts).attempts]

\* WeatherAPI._make_request; pos is <<lat, lon>>, or <<>> when the caller
\* passes no coordinates. The result, the cache afterwards, and the number
\* of provider calls (retry_request invocations) and of HTTP attempts made.
_make_request(c, endpoint_name, use_cache, pos, script) ==
    LET keyed == use_cache /\ pos # <<>>
        cached_data == IF keyed
                       THEN load_cache(c, CacheKey(pos[1], pos[2], endpoint_name))
                       ELSE "none"
        r == retry_request(script, MaxAttempts)
    IN IF keyed /\ Truthy(cached_data)
       THEN [result |-> cached_data, cache |-> c, calls |-> 0, attempts |-> 0]
       ELSE [result |-> r.result,
             cache |-> IF Truthy(r.result) /\ keyed
                       THEN save_cache(c, CacheKey(pos[1], pos[2], endpoint_name), r.result)
                       ELSE c,
             calls |-> 1, attempts |-> r.attempts]

(***************************************************************************)
(* SpecApi: requests to the endpoints, the provider answering each attempt *)
(* as it pleases, and time passing. SpecRetry: the same requests at one    *)
(* place, over every script of answers, the script being recorded.         *)
(***************************************************************************)
\* get_current_weather at two places, get_forecast_5d3h at the first, and
\* get_coordinates (use_cache=False, no coordinates)
ApiRequests ==
    { [endpoint |-> "weather", use_cache |-> TRUE, pos |-> <<10, 20>>],
      [endpoint |-> "forecast", use_cache |-> TRUE, pos |-> <<10, 20>>],
      [endpoint |-> "weather", use_cache |-> TRUE, pos |-> <<10, 30>>],
      [endpoint |-> "geocoding", use_cache |-> FALSE, pos |-> <<>>] }

\* get_air_pollution at one place, and get_coordinates
RetryRequests ==
    { [endpoint |-> "air_pollution", use_cache |-> TRUE, pos |-> <<10, 20>>],
      [endpoint |-> "geocoding", use_cache |-> FALSE, pos |-> <<>>] }

\* what the provider may answer to one attempt
Retryable == { Response(429, "none"), Response(500, "none"), Response(0, "none") }
Final ==
    { Response(200, "A"), Response(200, "B"), Response(200, "empty"),
      Response(404, "none"), Response(401, "none") }

\* the answers to the attempts of one call: a script ends with the first
\* answer that is not retried, or after MaxAttempts answers
Scripts ==
    UNION { { s \in [1..n -> Retryable \cup Final] :
                /\ \A i \in 1..(n - 1) : s[i] \in Retryable
                /\ n < MaxAttempts => s[n] \in Final } : n \in 1..MaxAttempts }

\* scripts that go on after a 404 or 401: what the provider would answer if
\* the call were attempted again
AfterTerminal ==
    { <<Response(st, "none"), Response(200, "A")>> : st \in {404, 401} } \cup
    { <<Response(429, "none"), Response(st, "none"), Response(200, "B")>> : st \in {404, 401} }

\* the scripts of SpecApi: every single answer, and three with retries
FewScripts ==
    { <<f>> : f \in Final } \cup
    { <<Response(429, "none"), Response(200, "A")>>,
      <<Response(500, "none"), Response(0, "none"), Response(200, "B")>>,
      <<Response(429, "none"), Response(429, "none"), Response(429, "none")>> }

KeyOf(q) == CacheKey(q.pos[1], q.pos[2], q.endpoint)
ApiKeys == { KeyOf(q) : q \in { x \in ApiRequests \cup RetryRequests : x.use_cache } }

ApiInit ==
    /\ cache = [k \in {} |-> NoEntry]
    /\ fetched = [k \in ApiKeys |-> NoEntry]
    /\ last = [op |-> "none", req |-> CHOOSE q \in ApiRequests : ~q.use_cache,
               script |-> <<>>, result |-> "none", calls |-> 0, attempts |-> 0]
    /\ disk = [main |-> JsonFile(EmptyDoc), backup |-> MissingFile, corrupted |-> MissingFile]
    /\ ret = NoCall
    /\ RaceIdle
    /\ SweepIdle
    /\ BotIdle

\* one request, the provider answering by script; shown is what is recorded
\* of the script. fetched remembers, per key, the last truthy response that
\* came from the provider.
ApiRequest(q, script, shown) ==
    LET r == _make_request(cache, q.endpoint, q.use_cache, q.pos, script)
    IN /\ cache' = r.cache
       /\ last' = [op |-> "request", req |-> q, script |-> shown, result |-> r.result,
                   calls |-> r.calls, attempts |-> r.attempts]
       /\ fetched' = IF q.use_cache /\ r.calls = 1 /\ Truthy(r.result)
                     THEN [fetched EXCEPT ![KeyOf(q)] = [value |-> r.result, age |-> 0]]
                     ELSE fetched
       /\ UNCHANGED outsideApi

\* one tick of the clock: every entry is a tick older (an entry older than
\* its time-to-live stays expired)
Older(e) == IF e.age < CacheTTL THEN [e EXCEPT !.age = @ + 1] ELSE e

ApiTick ==
    /\ cache' = [k \in DOMAIN cache |-> Older(cache[k])]
    /\ fetched' = [k \in DOMAIN fetched |-> Older(fetched[k])]
    /\ last' = [last EXCEPT !.op = "tick"]
    /\ UNCHANGED outsideApi

ApiNext ==
    \/ \E q \in ApiRequests, script \in FewScripts : ApiRequest(q, script, <<>>)
    \/ ApiTick

SpecApi == ApiInit /\ [][ApiNext]_vars

RetryNext ==
    \/ \E q \in RetryRequests, script \in Scripts \cup AfterTerminal :
          ApiRequest(q, script, script)
    \/ ApiTick

SpecRetry == ApiInit /\ [][RetryNext]_vars

(* C9: a request for a cached endpoint at coordinates for which the        *)
(* provider gave a response less than the time-to-live ago makes no        *)
(* provider call and returns that response (so the two requests cost one   *)
(* provider call); once the time-to-live has elapsed since that response,  *)
(* a request makes a new provider call.                                    *)
C9_SecondRequestIsCached ==
    [][ (last'.op = "request" /\ last'.req.use_cache
            /\ fetched[KeyOf(last'.req)].value # "none") =>
          IF fetched[KeyOf(last'.req)].age < CacheTTL
          THEN last'.calls = 0 /\ last'.result = fetched[KeyOf(last'.req)].value
          ELSE last'.calls = 1
      ]_vars

\* the second request has been served from the cache, a tick after the
\* provider answered "A" for its key, while another key holds "B"
C9_Witness ==
    /\ last.op = "request" /\ last.req.use_cache
    /\ last.calls = 0 /\ last.result = "A"
    /\ fetched[KeyOf(last.req)] = [value |-> "A", age |-> 1]
    /\ \E k \in ApiKeys \ {KeyOf(last.req)} : fetched[k].value = "B" /\ fetched[k].age < CacheTTL

(* C10: a provider call makes at most 3 attempts and retries on HTTP 429:  *)
(* after a 429 another attempt follows unless it was the third; answers    *)
(* 429, 429, 200 return the third attempt's payload; answers 429, 429, 429 *)
(* make exactly 3 attempts and yield no data.                              *)
C10_RetryOn429 ==
    (last.op = "request" /\ last.calls = 1) =>
        /\ last.attempts \in 1..3
        /\ \A i \in 1..Len(last.script) :
              (i < 3 /\ \A j \in 1..i : last.script[j].status = 429) => last.attempts > i
        /\ ( /\ Len(last.script) = 3
             /\ \A j \in 1..2 : last.script[j].status = 429 ) =>
               /\ last.attempts = 3
               /\ last.script[3].status = 200 => last.result = last.script[3].body
               /\ last.script[3].status = 429 => last.result = "none"

\* the call answered 429, 429, 200 has returned the third answer's payload
C10_Witness ==
    /\ last.op = "request" /\ last.calls = 1 /\ last.attempts = 3
    /\ last.script = <<Response(429, "none"), Response(429, "none"), Response(200, "A")>>
    /\ last.result = "A"

\* the first answer of the script that is a 404 or 401, every answer before
\* it having been one that is retried; 0 if there is none
Terminal(script) ==
    IF \E i \in 1..Len(script) : script[i].status \in {404, 401}
                                    /\ \A j \in 1..(i - 1) : script[j] \in Retryable
    THEN CHOOSE i \in 1..Len(script) : script[i].status \in {404, 401}
                                        /\ \A j \in 1..(i - 1) : script[j] \in Retryable
    ELSE 0

(* C11: a 404 or 401 answer is terminal: the provider call whose attempt   *)
(* is answered 404 or 401 makes no attempt after that one (a single        *)
(* attempt when it is the first answer), although the provider would       *)
(* answer a further attempt; the call yields no data; and the cache is     *)
(* left as it was.                                                         *)
C11_TerminalNotRetried ==
    [][ (last'.op = "request" /\ last'.calls = 1 /\ Terminal(last'.script) > 0) =>
          /\ last'.attempts = Terminal(last'.script)
          /\ last'.result = "none"
          /\ cache' = cache
      ]_vars

\* a cached endpoint was answered 404 and then, had it been asked again,
\* 200: one attempt was made, there is no data and no cache entry
C11_Witness ==
    /\ last.op = "request" /\ last.calls = 1 /\ last.req.use_cache
    /\ last.script = <<Response(404, "none"), Response(200, "A")>>
    /\ last.attempts = 1 /\ last.result = "none"
    /\ KeyOf(last.req) \notin DOMAIN cache

(***************************************************************************)
(* bot.py: the notification loop                                           *)
(***************************************************************************)
\* a JSON value that is no object where the code expects a dict
NotADict == [nondict |-> TRUE]
IsDict(v) == "nondict" \notin DOMAIN v

\* dict.get(k, default)
DictGet(r, k, default) == IF k \in DOMAIN r THEN r[k] ELSE default

\* int(user_id_str) succeeds on the decimal keys
IsNumeric(user_id_str) == user_id_str \in { ToString(n) : n \in 0..9 }
KeyUser(user_id_str) == CHOOSE n \in 0..9 : ToString(n) = user_id_str

\* strftime("%Y-%m-%d %H:%M:%S") keeps the whole seconds of a time in
\* milliseconds; strptime reads them back
FormatTime(t) == t \div 1000
ParseTime(s) == s * 1000

\* timedelta(hours=interval_h), in milliseconds
HoursMs(interval_h) == interval_h * 3600000

\* time.sleep(300), in milliseconds
SleepMs == 300000

\* notifications.get('interval_h', 2)
DefaultInterval == 2

\* WeatherAPI.get_current_weather: the result and the cache afterwards
get_current_weather(c, lat, lon, script) ==
    LET r == _make_request(c, "weather", TRUE, <<lat, lon>>, script)
    IN [result |-> r.result, cache |-> r.cache, calls |-> r.calls]

\* a check that compares the interval in minutes instead of hours
NotDueInMinutes(notifications, now) ==
    LET last_sent_str == DictGet(notifications, "last_sent", NoTime)
        interval_h == DictGet(notifications, "interval_h", DefaultInterval)
    IN /\ last_sent_str # NoTime
       /\ now - ParseTime(last_sent_str) < interval_h * 60000

\* the test that skips a user: last_sent is there and less than interval_h
\* hours have passed since
NotDue(notifications, now) ==
    LET last_sent_str == DictGet(notifications, "last_sent", NoTime)
        interval_h == DictGet(notifications, "interval_h", DefaultInterval)
    IN /\ last_sent_str # NoTime
       /\ now - ParseTime(last_sent_str) < HoursMs(interval_h)

\* what processing one user leaves: the disk, the cache and the clock
\* afterwards, what the fetch returned ("unasked" when none was made), whether
\* send_message was called and returned, the last_sent written, and the
\* failure met, if any
Quiet(d, c, now) ==
    [disk |-> d, cache |-> c, clock |-> now, weather |-> "unasked",
     called |-> FALSE, delivered |-> FALSE, stamp |-> NoTime, error |-> "none"]

\* WeatherBot._send_notification; env.script is the provider's answers,
\* env.sendRaises whether send_message raises, env.took the time the fetch
\* and the send take, env.store the I/O outcomes of the store call; the
\* flag update_user_notification returns is not looked at
_send_notification(d, c, user_id, user_data, now, env) ==
    IF "lat" \notin DOMAIN user_data \/ "lon" \notin DOMAIN user_data
    THEN Quiet(d, c, now)
    ELSE LET w == get_current_weather(c, user_data.lat, user_data.lon, env.script)
             fetched_w == [Quiet(d, w.cache, now) EXCEPT !.weather = w.result]
             at == now + env.took
             interval_h == DictGet(DictGet(user_data, "notifications", EmptyRec),
                                   "interval_h", DefaultInterval)
             s == update_user_notification(d, user_id, TRUE, interval_h,
                                           FormatTime(at), env.store)
         IN IF ~Truthy(w.result)
            THEN [fetched_w EXCEPT !.error = "fetch"]
            ELSE IF env.sendRaises
                 THEN [fetched_w EXCEPT !.called = TRUE, !.error = "send"]
                 ELSE [fetched_w EXCEPT !.called = TRUE, !.delivered = TRUE,
                                        !.disk = s.disk, !.clock = at,
                                        !.stamp = FormatTime(at)]

\* the body of the loop of _check_and_send_notifications for one item
CheckUser(d, c, user_id_str, user_data, now, env) ==
    IF ~IsNumeric(user_id_str)
    THEN [Quiet(d, c, now) EXCEPT !.error = "key"]
    ELSE IF ~IsDict(user_data)
    THEN [Quiet(d, c, now) EXCEPT !.error = "record"]
    ELSE LET notifications == DictGet(user_data, "notifications", EmptyRec)
         IN IF ~IsDict(notifications)
            THEN [Quiet(d, c, now) EXCEPT !.error = "record"]
            ELSE IF ~DictGet(notifications, "enabled", FALSE)
            THEN Quiet(d, c, now)
            ELSE IF NotDue(notifications, now)
            THEN Quiet(d, c, now)
            ELSE _send_notification(d, c, KeyUser(user_id_str), user_data, now, env)

\* a loop that gives up on the first failure
LoopStopsOnFailure(todo, user_id_str, error) ==
    IF error = "none" THEN todo \ {user_id_str} ELSE {}

\* the items left after one was processed: a failure is logged and the loop
\* goes on
LoopContinues(todo, user_id_str, error) == todo \ {user_id_str}

(***************************************************************************)
(* SpecSweep: the notification worker alone. It sleeps 300 seconds, loads  *)
(* the document and processes its items one by one; the provider answers   *)
(* and send_message raises as they please. The cache's time-to-live is     *)
(* taken to be CacheTTL sleeps.                                            *)
(***************************************************************************)
\* the sweeps of a run
MaxSweeps == 2

\* a record as the handlers write it: notifications, the shared location,
\* and the last_sent an earlier run of the process left (NoTime: none)
SweepRec(enabled, interval_h, pos, last_sent) ==
    LET n == NotifUpdate(EmptyRec, enabled, interval_h, last_sent)
    IN IF pos = <<>>
       THEN n
       ELSE DictUpdate(n, [city |-> "Paris", lat |-> pos[1], lon |-> pos[2]])

\* user 1 has notifications every hour, never sent or last sent at second
\* 0, 300 or 301
SweepRecs1 == { SweepRec(TRUE, 1, <<10, 20>>, t) : t \in {NoTime, 0, 300, 301} }

\* user 2 has them every two hours at the same place, every hour on the
\* equator, every hour without a location, or not at all
SweepRecs2 ==
    { SweepRec(TRUE, 2, <<10, 20>>, 0), SweepRec(TRUE, 2, <<10, 20>>, NoTime),
      SweepRec(TRUE, 1, <<0, 20>>, 0), SweepRec(TRUE, 1, <<>>, NoTime),
      SweepRec(FALSE, 1, <<10, 20>>, NoTime) }

\* items a hand-edited document may hold: a key that is no number, a record
\* that is no object
BadItems ==
    [k \in {"x", "3"} |->
        IF k = "x" THEN SweepRec(TRUE, 1, <<10, 20>>, NoTime) ELSE NotADict]

SweepDocs ==
    { [k \in {"1", "2"} \cup DOMAIN bad |->
          IF k = "1" THEN r1 ELSE IF k = "2" THEN r2 ELSE bad[k]] :
        r1 \in SweepRecs1, r2 \in SweepRecs2, bad \in {EmptyDoc, BadItems} }

\* the process starts 25, 60 or 115 minutes after second 0
BootTimes == {1500000, 3600000, 6900000}

\* the provider answers at once, or fails every attempt
SweepScripts ==
    { <<Response(200, "A")>>,
      <<Response(500, "none"), Response(0, "none"), Response(429, "none")>> }

SweepEnvs ==
    { [script |-> sc, sendRaises |-> b, took |-> t, store |-> NoFault] :
        sc \in SweepScripts, b \in BOOLEAN, t \in {0, 700} }

NoLog == [k \in {} |-> EmptyRec]

SweepInit ==
    /\ \E doc \in SweepDocs :
          disk = [main |-> JsonFile(doc), backup |-> MissingFile, corrupted |-> MissingFile]
    /\ cache = [k \in {} |-> NoEntry]
    /\ clock \in BootTimes
    /\ sweep = [phase |-> "sleep", n |-> 0, all_users |-> EmptyDoc, todo |-> {},
                log |-> NoLog, caught |-> 0]
    /\ ret = NoCall
    /\ RaceIdle
    /\ fetched = EmptyRec
    /\ last = EmptyRec
    /\ BotIdle

\* notification_worker: time.sleep(300), then the sweep starts with load_all
SweepSleep ==
    /\ sweep.phase = "sleep"
    /\ sweep.n < MaxSweeps
    /\ LET l == load_all(disk, NoFault)
       IN /\ disk' = l.disk
          /\ sweep' = [phase |-> "loop", n |-> sweep.n + 1, all_users |-> l.data,
                       todo |-> DOMAIN l.data, log |-> NoLog, caught |-> sweep.caught]
    /\ clock' = clock + SleepMs
    /\ cache' = [k \in DOMAIN cache |-> Older(cache[k])]
    /\ UNCHANGED outsideSweep

\* one iteration of the loop over all_users.items(); the log keeps, per
\* item, when it was processed, what came of it, and how many items of the
\* sweep had failed before it
SweepItem(user_id_str, env) ==
    /\ sweep.phase = "loop"
    /\ user_id_str \in sweep.todo
    /\ LET r == CheckUser(disk, cache, user_id_str, sweep.all_users[user_id_str],
                          clock, env)
           entry == [now |-> clock, weather |-> r.weather, called |-> r.called,
                     delivered |-> r.delivered, stamp |-> r.stamp, error |-> r.error,
                     failures |-> Cardinality({ k \in DOMAIN sweep.log :
                                                  sweep.log[k].error # "none" })]
       IN /\ disk' = r.disk
          /\ cache' = r.cache
          /\ clock' = r.clock
          /\ sweep' = [sweep EXCEPT
                          !.todo = LoopContinues(sweep.todo, user_id_str, r.error),
                          !.log = [k \in (DOMAIN sweep.log) \cup {user_id_str} |->
                                      IF k = user_id_str THEN entry ELSE sweep.log[k]]]

\* the iteration as a step of the worker thread
SweepUser(user_id_str, env) ==
    /\ SweepItem(user_id_str, env)
    /\ UNCHANGED outsideSweep

\* the loop is over: back to sleep
SweepEnd ==
    /\ sweep.phase = "loop"
    /\ sweep.todo = {}
    /\ sweep' = [sweep EXCEPT !.phase = "sleep", !.all_users = EmptyDoc, !.log = NoLog]
    /\ UNCHANGED <<disk, cache, clock>>
    /\ UNCHANGED outsideSweep

SweepNext ==
    \/ SweepSleep
    \/ \E k \in sweep.todo, env \in SweepEnvs : SweepUser(k, env)
    \/ SweepEnd

SpecSweep == SweepInit /\ [][SweepNext]_vars

(***************************************************************************)
(* SpecWorker: the notification thread as the scheduler runs it. A sweep   *)
(* may end in an exception none of its own handlers catches (caught: how   *)
(* many the worker has caught); the thread is scheduled again and again,   *)
(* and time.sleep returns.                                                 *)
(***************************************************************************)
\* both users' notifications are due; with and without items that are no
\* records
WorkerDocs ==
    { doc \in SweepDocs :
        /\ doc["1"] = SweepRec(TRUE, 1, <<10, 20>>, NoTime)
        /\ doc["2"] = SweepRec(TRUE, 2, <<10, 20>>, NoTime) }

WorkerInit ==
    /\ SweepInit
    /\ disk.main \in { JsonFile(doc) : doc \in WorkerDocs }
    /\ clock = 1500000

\* without the try of notification_worker the exception ends the thread
WorkerDies ==
    /\ sweep.phase = "loop"
    /\ sweep' = [sweep EXCEPT !.phase = "dead", !.all_users = EmptyDoc, !.todo = {},
                              !.log = NoLog]
    /\ UNCHANGED <<disk, cache, clock>>
    /\ UNCHANGED outsideSweep

\* notification_worker's except clause: an exception leaves the sweep where
\* it was, is logged, and the loop goes round to the next sleep
SweepRaise ==
    /\ sweep.phase = "loop"
    /\ sweep' = [sweep EXCEPT !.phase = "sleep", !.all_users = EmptyDoc, !.todo = {},
                              !.log = NoLog, !.caught = sweep.caught + 1]
    /\ UNCHANGED <<disk, cache, clock>>
    /\ UNCHANGED outsideSweep

\* the provider answers at once or fails every attempt, the delivery goes
\* through or raises; no call takes time
WorkerEnvs == { env \in SweepEnvs : env.took = 0 }

WorkerNext ==
    \/ SweepSleep
    \/ \E k \in sweep.todo, env \in WorkerEnvs : SweepUser(k, env)
    \/ SweepEnd
    \/ SweepRaise

SpecWorker == WorkerInit /\ [][WorkerNext]_vars /\ WF_vars(WorkerNext)

\* a record the handlers could have written, under a decimal key
WellFormed(doc, k) ==
    /\ IsNumeric(k)
    /\ IsDict(doc[k])
    /\ IsDict(DictGet(doc[k], "notifications", EmptyRec))

Notifications(doc, k) == DictGet(doc[k], "notifications", EmptyRec)
StoredLastSent(doc, k) == DictGet(Notifications(doc, k), "last_sent", NoTime)

\* user k of the document has notifications on and a saved place, and was
\* never notified or at least interval_h hours (of 3,600,000 ms) before now
Eligible(doc, k, now) ==
    /\ DictGet(Notifications(doc, k), "enabled", FALSE)
    /\ "lat" \in DOMAIN doc[k] /\ "lon" \in DOMAIN doc[k]
    /\ \/ StoredLastSent(doc, k) = NoTime
       \/ now - 1000 * StoredLastSent(doc, k)
             >= 3600000 * DictGet(Notifications(doc, k), "interval_h", 2)

(* C3: when a sweep processes user k, the weather is fetched iff k is      *)
(* enabled, has lat and lon, and last_sent is absent or at least           *)
(* interval_h hours before now; send_message is called iff moreover the    *)
(* fetch returned data; last_sent becomes the send time (in whole seconds) *)
(* iff send_message returned, and is unchanged otherwise. With a 1-hour    *)
(* interval, 30 minutes after last_sent nothing is sent and the document   *)
(* is unchanged; 65 minutes after it, with a place and data fetched, the   *)
(* message is sent.                                                        *)
C3_NotifiedIffDue ==
    [][ \A k \in (DOMAIN sweep'.log) \ (DOMAIN sweep.log) :
          WellFormed(sweep.all_users, k) =>
            LET e == sweep'.log[k]
                n == Notifications(sweep.all_users, k)
                since == clock - 1000 * StoredLastSent(sweep.all_users, k)
                hourly == n.enabled /\ n.interval_h = 1 /\ "last_sent" \in DOMAIN n
            IN /\ (e.weather # "unasked") <=> Eligible(sweep.all_users, k, clock)
               /\ e.called <=> (e.weather # "unasked" /\ Truthy(e.weather))
               /\ e.delivered => e.called
               /\ StoredLastSent(disk'.main.doc, k) =
                     IF e.delivered THEN clock' \div 1000
                     ELSE StoredLastSent(disk.main.doc, k)
               /\ (hourly /\ since = 1800000) => (~e.called /\ disk' = disk)
               /\ (hourly /\ since = 3900000 /\ "lat" \in DOMAIN sweep.all_users[k]
                     /\ "lon" \in DOMAIN sweep.all_users[k]) =>
                       /\ e.weather # "unasked"
                       /\ Truthy(e.weather) => e.called
      ]_vars

\* the sweep 65 minutes after user 1's last notification (an hourly one) has
\* delivered the next and stored its time, while user 2, on a two-hour
\* interval and last notified at the same time, was left alone
C3_Witness ==
    /\ sweep.phase = "loop" /\ {"1", "2"} \subseteq DOMAIN sweep.log
    /\ sweep.log["1"].now = 3900000
    /\ Notifications(sweep.all_users, "1").interval_h = 1
    /\ StoredLastSent(sweep.all_users, "1") = 0
    /\ sweep.log["1"].delivered
    /\ StoredLastSent(disk.main.doc, "1") = 3900
    /\ Notifications(sweep.all_users, "2").interval_h = 2
    /\ StoredLastSent(sweep.all_users, "2") = 0
    /\ ~sweep.log["2"].called
    /\ StoredLastSent(disk.main.doc, "2") = 0

(* C4: when the loop of a sweep is over, every item of the document was    *)
(* processed, whatever failed on the way (a key that is no number, a       *)
(* record that is no object, a fetch without data, a send that raised):    *)
(* for every eligible user the weather was fetched, and the user was       *)
(* notified unless that user's own fetch or send failed.                   *)
C4_FailureIsolation ==
    (sweep.phase = "loop" /\ sweep.todo = {}) =>
        \A k \in DOMAIN sweep.all_users :
            /\ k \in DOMAIN sweep.log
            /\ (WellFormed(sweep.all_users, k)
                  /\ Eligible(sweep.all_users, k, sweep.log[k].now)) =>
                    /\ sweep.log[k].weather # "unasked"
                    /\ sweep.log[k].delivered \/ sweep.log[k].error \in {"fetch", "send"}
                    /\ sweep.log[k].delivered =>
                          StoredLastSent(disk.main.doc, k) = sweep.log[k].stamp

\* a sweep is over in which the key "x", the record of "3" and user 1 (the
\* fetch or the send) all failed before user 2 was processed, and user 2
\* was notified
C4_Witness ==
    /\ sweep.phase = "loop" /\ sweep.todo = {}
    /\ DOMAIN sweep.log = {"1", "2", "3", "x"}
    /\ sweep.log["x"].error = "key"
    /\ sweep.log["3"].error = "record"
    /\ sweep.log["1"].error = "send"
    /\ sweep.log["2"].failures = 3
    /\ sweep.log["2"].delivered
    /\ StoredLastSent(disk.main.doc, "2") = sweep.log["2"].stamp

(***************************************************************************)
(* bot.py: the foreground handlers. A handler is an operator on a world:   *)
(* the disk, the cache and user_states as it leaves them, with the         *)
(* messages it sent, the times it answered the callback and the toasts it  *)
(* answered with, the requests it made to the provider, the answers it     *)
(* gave to an inline query, and whether it ended by raising.               *)
(***************************************************************************)
World(d, c, us) ==
    [disk |-> d, cache |-> c, states |-> us, msgs |-> <<>>, answers |-> 0,
     toasts |-> <<>>, calls |-> 0, inline |-> <<>>, raised |-> FALSE]

\* bot.send_message / reply_to / edit_message_text, by the kind of message
send_message(w, m) == [w EXCEPT !.msgs = Append(w.msgs, m)]

\* bot.answer_callback_query(call.id, text); the text is "" when none is given
answer_callback_query(w, text) ==
    [w EXCEPT !.answers = w.answers + 1, !.toasts = Append(w.toasts, text)]

\* n requests went out to the provider
Called(w, n) == [w EXCEPT !.calls = w.calls + n]

\* self.user_states[user_id] = st
SetState(w, user_id, st) ==
    [w EXCEPT !.states = [k \in (DOMAIN w.states) \cup {user_id} |->
                             IF k = user_id THEN st ELSE w.states[k]]]

\* self.user_states.pop(user_id, None)
PopState(w, user_id) ==
    [w EXCEPT !.states = [k \in (DOMAIN w.states) \ {user_id} |-> w.states[k]]]

\* self.storage.load_user within a handler: the record, and the world after
\* the read
LoadUser(w, user_id) ==
    LET l == load_user(w.disk, user_id, NoFault)
    IN [data |-> l.data, world |-> [w EXCEPT !.disk = l.disk]]

\* the labels of the reply keyboards (transliterated): "Nazad v menu" and
\* "Nazad" are the two back buttons
BtnBackToMenu == "Nazad v menu"
BtnBack == "Nazad"
BtnCurrent == "Tekushchaya pogoda"
BtnForecast == "Prognoz na 5 dney"
BtnLocation == "Moya geolokatsiya"
BtnCompare == "Sravnit goroda"
BtnExtended == "Rasshirennye dannye"
BtnNotifications == "Uvedomleniya"
BtnHelp == "Pomoshch"
BtnEnterCity == "Vvesti gorod"
BtnEnterOtherCity == "Vvesti drugoy gorod"

\* a message text is its stripped body and the blanks around it
Strip(message_text) == message_text.body

\* utils.validate_city_name: the stripped length is at least 2
validate_city_name(city) == Len(city) >= 2

\* utils.validate_coordinates
validate_coordinates(lat, lon) ==
    lat >= -90 /\ lat <= 90 /\ lon >= -180 /\ lon <= 180

\* utils.validate_notification_interval
validate_notification_interval(interval) == interval >= 1 /\ interval <= 24

\* the provider's gazetteer, and the name and country its weather payload
\* carries
Places == [city \in {"Paris"} |-> <<10, 20>>]
PayloadName == "Paris"
PayloadCountry == "France"

\* the provider answers at once, or fails every attempt
Up == <<Response(200, "A")>>
Down == <<Response(500, "none"), Response(0, "none"), Response(429, "none")>>

\* WeatherAPI.get_coordinates: <<lat, lon>>, or <<>> for None; geocoding is
\* "up" or "down", and an unknown city is answered with an empty list
get_coordinates(c, city, geocoding) ==
    IF Len(city) < 2
    THEN <<>>
    ELSE LET script == IF geocoding = "down" THEN Down
                       ELSE IF city \in DOMAIN Places THEN Up
                       ELSE <<Response(200, "empty")>>
             response == _make_request(c, "geocoding", FALSE, <<>>, script).result
         IN IF Truthy(response) THEN Places[city] ELSE <<>>

\* the geocoding requests get_coordinates makes for a name (never cached)
GeocodingCalls(city) == IF Len(city) < 2 THEN 0 ELSE 1

\* the days a forecast payload has periods for
ForecastDays(result) == IF result = "A" THEN {"d1", "d2"} ELSE {}

\* WeatherAPI.get_forecast_5d3h: the days of the list, and the cache
get_forecast_5d3h(c, lat, lon, script) ==
    LET r == _make_request(c, "forecast", TRUE, <<lat, lon>>, script)
    IN [days |-> IF Truthy(r.result) THEN ForecastDays(r.result) ELSE {},
        cache |-> r.cache, calls |-> r.calls]

\* WeatherAPI.get_air_pollution: the first sample of the list, or None
get_air_pollution(c, lat, lon, script) ==
    LET r == _make_request(c, "air_pollution", TRUE, <<lat, lon>>, script)
    IN [result |-> IF r.result = "A" THEN r.result ELSE "none", cache |-> r.cache,
        calls |-> r.calls]

\* dict.get(k): <<v>> for a value, <<>> for None; a number is falsy when it
\* is None or 0, a string when it is None or empty; `a or b`
Get(r, k) == IF k \in DOMAIN r THEN <<r[k]>> ELSE <<>>
FalsyNum(v) == v = <<>> \/ v = <<0>>
FalsyStr(v) == v = <<>> \/ v = <<"">>
OrNum(a, b) == IF FalsyNum(a) THEN b ELSE a
OrStr(a, b) == IF FalsyStr(a) THEN b ELSE a

\* a /start that writes the default settings whether or not a record exists
StartResetsSettings(w, user_id) ==
    LET l == LoadUser(w, user_id)
        created == save_user(l.world.disk, user_id,
                             [notifications |-> [enabled |-> FALSE, interval_h |-> 2]],
                             NoFault)
    IN send_message(PopState([l.world EXCEPT !.disk = created.disk], user_id), "welcome")

\* WeatherBot.handle_start
handle_start(w, user_id) ==
    LET l == LoadUser(w, user_id)
        created == save_user(l.world.disk, user_id,
                             [notifications |-> [enabled |-> FALSE, interval_h |-> 2]],
                             NoFault)
        w1 == IF l.data = EmptyRec THEN [l.world EXCEPT !.disk = created.disk]
              ELSE l.world
    IN send_message(PopState(w1, user_id), "welcome")

\* WeatherBot.handle_help
handle_help(w) == send_message(w, "help")

\* a lookup that stores the place as soon as it is geocoded, before the
\* weather is known
CityWeatherSavesEarly(w, user_id, city, env) ==
    LET w1 == send_message(w, "searching")
        coords == get_coordinates(w.cache, city, env.geocoding)
        weather == get_current_weather(w.cache, coords[1], coords[2], env.weather)
        saved == save_user(w.disk, user_id,
                           [last_city |-> PayloadName, last_lat |-> coords[1],
                            last_lon |-> coords[2], last_country |-> PayloadCountry],
                           NoFault)
        w2 == Called([w1 EXCEPT !.cache = weather.cache, !.disk = saved.disk],
                     GeocodingCalls(city) + weather.calls)
    IN IF coords = <<>>
       THEN send_message(Called(w1, GeocodingCalls(city)), "city_not_found")
       ELSE IF ~Truthy(weather.result)
       THEN send_message(w2, "weather_failed")
       ELSE send_message(w2, "weather")

\* WeatherBot.handle_city_weather
handle_city_weather(w, user_id, city, env) ==
    LET w1 == send_message(w, "searching")
        coords == get_coordinates(w.cache, city, env.geocoding)
        weather == get_current_weather(w.cache, coords[1], coords[2], env.weather)
        w2 == Called([w1 EXCEPT !.cache = weather.cache],
                     GeocodingCalls(city) + weather.calls)
        saved == save_user(w.disk, user_id,
                           [last_city |-> PayloadName, last_lat |-> coords[1],
                            last_lon |-> coords[2], last_country |-> PayloadCountry],
                           NoFault)
    IN IF coords = <<>>
       THEN send_message(Called(w1, GeocodingCalls(city)), "city_not_found")
       ELSE IF ~Truthy(weather.result)
       THEN send_message(w2, "weather_failed")
       ELSE send_message([w2 EXCEPT !.disk = saved.disk], "weather")

\* WeatherBot.handle_current_weather_request
handle_current_weather_request(w, user_id) ==
    LET l == LoadUser(w, user_id)
    IN IF ~FalsyNum(Get(l.data, "lat")) /\ ~FalsyNum(Get(l.data, "lon"))
          /\ ~FalsyStr(Get(l.data, "city"))
       THEN send_message(l.world, "current_prompt_saved")
       ELSE send_message(l.world, "current_prompt")

\* WeatherBot.handle_location_request
handle_location_request(w, user_id) ==
    LET l == LoadUser(w, user_id)
    IN IF ~FalsyStr(Get(l.data, "city"))
       THEN send_message(l.world, "location_prompt_saved")
       ELSE send_message(l.world, "location_prompt")

\* WeatherBot.handle_forecast_request
handle_forecast_request(w, user_id, env) ==
    LET l == LoadUser(w, user_id)
        lat == OrNum(Get(l.data, "last_lat"), Get(l.data, "lat"))
        lon == OrNum(Get(l.data, "last_lon"), Get(l.data, "lon"))
        w1 == send_message(l.world, "forecast_searching")
        forecast == get_forecast_5d3h(w.cache, lat[1], lon[1], env.forecast)
        w2 == Called([w1 EXCEPT !.cache = forecast.cache], forecast.calls)
    IN IF FalsyNum(lat) \/ FalsyNum(lon)
       THEN SetState(send_message(l.world, "forecast_need_place"), user_id,
                     [waiting_for_city |-> TRUE, forecast_mode |-> TRUE])
       ELSE IF forecast.days = {}
       THEN send_message(w2, "forecast_failed")
       ELSE send_message(w2, "forecast_days")

\* a compare request that asks for the second city at once
CompareRequestSkipsFirst(w, user_id) ==
    send_message(SetState(w, user_id, [waiting_for_city2 |-> TRUE]), "compare_first")

\* WeatherBot.handle_compare_request
handle_compare_request(w, user_id) ==
    send_message(SetState(w, user_id, [waiting_for_city1 |-> TRUE]), "compare_first")

\* the texts that quote city names
Comparing(city1, city2) == "comparing " \o city1 \o " and " \o city2
NotFound(city) == "not_found " \o city

\* a comparison that reports the first city whichever of the two failed
CompareBlamesFirstCity(w, city1, city2, env) ==
    LET w1 == send_message(w, Comparing(city1, city2))
        coords1 == get_coordinates(w.cache, city1, env.geocoding)
        coords2 == get_coordinates(w.cache, city2, env.geocoding)
        weather1 == get_current_weather(w.cache, coords1[1], coords1[2], env.weather)
        weather2 == get_current_weather(weather1.cache, coords2[1], coords2[2],
                                        env.weather)
        geo == GeocodingCalls(city1) + GeocodingCalls(city2)
        w2 == Called([w1 EXCEPT !.cache = weather2.cache],
                     geo + weather1.calls + weather2.calls)
    IN IF coords1 = <<>> \/ coords2 = <<>>
       THEN send_message(Called(w1, geo), NotFound(city1))
       ELSE IF ~Truthy(weather1.result) \/ ~Truthy(weather2.result)
       THEN send_message(w2, "weather_failed")
       ELSE send_message(w2, "comparison")

\* WeatherBot.handle_compare_cities
handle_compare_cities(w, city1, city2, env) ==
    LET w1 == send_message(w, Comparing(city1, city2))
        coords1 == get_coordinates(w.cache, city1, env.geocoding)
        coords2 == get_coordinates(w.cache, city2, env.geocoding)
        weather1 == get_current_weather(w.cache, coords1[1], coords1[2], env.weather)
        weather2 == get_current_weather(weather1.cache, coords2[1], coords2[2],
                                        env.weather)
        geo == GeocodingCalls(city1) + GeocodingCalls(city2)
        w2 == Called([w1 EXCEPT !.cache = weather2.cache],
                     geo + weather1.calls + weather2.calls)
    IN IF coords1 = <<>>
       THEN send_message(Called(w1, geo), NotFound(city1))
       ELSE IF coords2 = <<>>
       THEN send_message(Called(w1, geo), NotFound(city2))
       ELSE IF ~Truthy(weather1.result) \/ ~Truthy(weather2.result)
       THEN send_message(w2, "weather_failed")
       ELSE send_message(w2, "comparison")

\* WeatherBot.handle_extended_data_request
handle_extended_data_request(w, user_id, env) ==
    LET l == LoadUser(w, user_id)
        lat == OrNum(Get(l.data, "last_lat"), Get(l.data, "lat"))
        lon == OrNum(Get(l.data, "last_lon"), Get(l.data, "lon"))
        w1 == send_message(l.world, "extended_searching")
        weather == get_current_weather(w.cache, lat[1], lon[1], env.weather)
        pollution_data == get_air_pollution(weather.cache, lat[1], lon[1],
                                            env.air_pollution)
        w2 == Called([w1 EXCEPT !.cache = pollution_data.cache],
                     weather.calls + pollution_data.calls)
    IN IF FalsyNum(lat) \/ FalsyNum(lon)
       THEN SetState(send_message(l.world, "extended_need_place"), user_id,
                     [waiting_for_city |-> TRUE, extended_mode |-> TRUE])
       ELSE IF ~Truthy(weather.result)
       THEN send_message(w2, "weather_failed")
       ELSE IF pollution_data.result # "none"
       THEN send_message(w2, "extended_with_air")
       ELSE send_message(w2, "extended_without_air")

\* WeatherBot.handle_notifications_menu
handle_notifications_menu(w, user_id) ==
    LET l == LoadUser(w, user_id)
    IN send_message(send_message(l.world, "notifications_status"),
                    "notifications_keyboard")

\* a city input whose second compare name leaves the dialog state in place
CityInputStaysInCompare(w, user_id, message_text, mode, env) ==
    LET city == Strip(message_text)
        city1 == Get(DictGet(w.states, user_id, EmptyRec), "city1")
    IN IF ~validate_city_name(city)
       THEN send_message(w, "invalid_city")
       ELSE CASE mode = "current" ->
                  handle_city_weather(PopState(w, user_id), user_id, city, env)
              [] mode = "compare1" ->
                  send_message(SetState(w, user_id,
                                        [city1 |-> city, waiting_for_city2 |-> TRUE]),
                               "compare_second")
              [] mode = "compare2" ->
                  IF ~FalsyStr(city1)
                  THEN handle_compare_cities(w, city1[1], city, env)
                  ELSE w

\* a city input that gives up the dialog when the name is invalid
CityInputDropsDialog(w, user_id, message_text, mode, env) ==
    LET city == Strip(message_text)
        city1 == Get(DictGet(w.states, user_id, EmptyRec), "city1")
    IN IF ~validate_city_name(city)
       THEN send_message(PopState(w, user_id), "invalid_city")
       ELSE CASE mode = "current" ->
                  handle_city_weather(PopState(w, user_id), user_id, city, env)
              [] mode = "compare1" ->
                  send_message(SetState(w, user_id,
                                        [city1 |-> city, waiting_for_city2 |-> TRUE]),
                               "compare_second")
              [] mode = "compare2" ->
                  IF ~FalsyStr(city1)
                  THEN handle_compare_cities(PopState(w, user_id), city1[1], city, env)
                  ELSE w

\* WeatherBot.handle_city_input
handle_city_input(w, user_id, message_text, mode, env) ==
    LET city == Strip(message_text)
        city1 == Get(DictGet(w.states, user_id, EmptyRec), "city1")
    IN IF ~validate_city_name(city)
       THEN send_message(w, "invalid_city")
       ELSE CASE mode = "current" ->
                  handle_city_weather(PopState(w, user_id), user_id, city, env)
              [] mode = "compare1" ->
                  send_message(SetState(w, user_id,
                                        [city1 |-> city, waiting_for_city2 |-> TRUE]),
                               "compare_second")
              [] mode = "compare2" ->
                  IF ~FalsyStr(city1)
                  THEN handle_compare_cities(PopState(w, user_id), city1[1], city, env)
                  ELSE w

\* a text handler that looks up any free text, however short
TextLookedUpUnvalidated(w, user_id, message_text, env) ==
    LET text == Strip(message_text)
        state == DictGet(w.states, user_id, EmptyRec)
    IN CASE text = BtnBackToMenu \/ text = BtnBack ->
               send_message(PopState(w, user_id), "main_menu")
         [] text = BtnCurrent -> handle_current_weather_request(w, user_id)
         [] text = BtnForecast -> handle_forecast_request(w, user_id, env)
         [] text = BtnLocation -> handle_location_request(w, user_id)
         [] text = BtnCompare -> handle_compare_request(w, user_id)
         [] text = BtnExtended -> handle_extended_data_request(w, user_id, env)
         [] text = BtnNotifications -> handle_notifications_menu(w, user_id)
         [] text = BtnHelp -> handle_help(w)
         [] text = BtnEnterCity ->
               send_message(SetState(w, user_id, [waiting_for_city |-> TRUE]),
                            "enter_city")
         [] OTHER ->
               IF DictGet(state, "waiting_for_city", FALSE)
               THEN handle_city_input(w, user_id, message_text, "current", env)
               ELSE IF DictGet(state, "waiting_for_city1", FALSE)
               THEN handle_city_input(w, user_id, message_text, "compare1", env)
               ELSE IF DictGet(state, "waiting_for_city2", FALSE)
               THEN handle_city_input(w, user_id, message_text, "compare2", env)
               ELSE handle_city_weather(w, user_id, text, env)

\* WeatherBot.handle_text
handle_text(w, user_id, message_text, env) ==
    LET text == Strip(message_text)
        state == DictGet(w.states, user_id, EmptyRec)
    IN CASE text = BtnBackToMenu \/ text = BtnBack ->
               send_message(PopState(w, user_id), "main_menu")
         [] text = BtnCurrent -> handle_current_weather_request(w, user_id)
         [] text = BtnForecast -> handle_forecast_request(w, user_id, env)
         [] text = BtnLocation -> handle_location_request(w, user_id)
         [] text = BtnCompare -> handle_compare_request(w, user_id)
         [] text = BtnExtended -> handle_extended_data_request(w, user_id, env)
         [] text = BtnNotifications -> handle_notifications_menu(w, user_id)
         [] text = BtnHelp -> handle_help(w)
         [] text = BtnEnterCity ->
               send_message(SetState(w, user_id, [waiting_for_city |-> TRUE]),
                            "enter_city")
         [] OTHER ->
               IF DictGet(state, "waiting_for_city", FALSE)
               THEN handle_city_input(w, user_id, message_text, "current", env)
               ELSE IF DictGet(state, "waiting_for_city1", FALSE)
               THEN handle_city_input(w, user_id, message_text, "compare1", env)
               ELSE IF DictGet(state, "waiting_for_city2", FALSE)
               THEN handle_city_input(w, user_id, message_text, "compare2", env)
               ELSE IF validate_city_name(text)
               THEN handle_city_weather(w, user_id, text, env)
               ELSE send_message(w, "not_understood")

\* a share that stores the coordinates only when the place could be named
LocationSavedOnlyWhenNamed(w, user_id, location, env) ==
    LET lat == location[1]
        lon == location[2]
        w1 == send_message(w, "locating")
        weather == get_current_weather(w.cache, lat, lon, env.weather)
        found == Truthy(weather.result)
        city_name == IF found THEN PayloadName ELSE "Neizvestno"
        s1 == update_user_location(w.disk, user_id, city_name, lat, lon, NoFault)
        s2 == save_user(s1.disk, user_id,
                        [last_city |-> city_name, last_lat |-> lat, last_lon |-> lon,
                         last_country |-> IF found THEN PayloadCountry ELSE ""],
                        NoFault)
        w2 == Called([w1 EXCEPT !.disk = s2.disk, !.cache = weather.cache],
                     weather.calls)
    IN IF location = <<>>
       THEN send_message(w, "send_a_location")
       ELSE IF ~validate_coordinates(lat, lon)
       THEN send_message(w, "invalid_coordinates")
       ELSE IF found
       THEN handle_city_weather(w2, user_id, city_name, env)
       ELSE send_message(Called([w1 EXCEPT !.cache = weather.cache], weather.calls),
                         "location_saved_unnamed")

\* WeatherBot.handle_location; location is <<lat, lon>>, or <<>> for None
handle_location(w, user_id, location, env) ==
    LET lat == location[1]
        lon == location[2]
        w1 == send_message(w, "locating")
        weather == get_current_weather(w.cache, lat, lon, env.weather)
        found == Truthy(weather.result)
        city_name == IF found THEN PayloadName ELSE "Neizvestno"
        s1 == update_user_location(w.disk, user_id, city_name, lat, lon, NoFault)
        s2 == save_user(s1.disk, user_id,
                        [last_city |-> city_name, last_lat |-> lat, last_lon |-> lon,
                         last_country |-> IF found THEN PayloadCountry ELSE ""],
                        NoFault)
        w2 == Called([w1 EXCEPT !.disk = s2.disk, !.cache = weather.cache],
                     weather.calls)
    IN IF location = <<>>
       THEN send_message(w, "send_a_location")
       ELSE IF ~validate_coordinates(lat, lon)
       THEN send_message(w, "invalid_coordinates")
       ELSE IF found
       THEN handle_city_weather(w2, user_id, city_name, env)
       ELSE send_message(w2, "location_saved_unnamed")

\* WeatherBot.handle_forecast_day
handle_forecast_day(w, user_id, day_key, env) ==
    LET l == LoadUser(w, user_id)
        lat == Get(l.data, "lat")
        lon == Get(l.data, "lon")
        forecast == get_forecast_5d3h(w.cache, lat[1], lon[1], env.forecast)
        w1 == Called([l.world EXCEPT !.cache = forecast.cache], forecast.calls)
    IN IF FalsyNum(lat) \/ FalsyNum(lon)
       THEN send_message(l.world, "no_location")
       ELSE IF forecast.days = {}
       THEN send_message(w1, "forecast_failed")
       ELSE IF day_key \notin forecast.days
       THEN send_message(w1, "no_day_data")
       ELSE send_message(w1, "forecast_day")

\* a toggle that writes the default interval instead of the stored one
ToggleResetsInterval(w, user_id, enabled) ==
    LET l == LoadUser(w, user_id)
        s == update_user_notification(l.world.disk, user_id, enabled,
                                      DefaultInterval, NoTime, NoFault)
        w1 == answer_callback_query([l.world EXCEPT !.disk = s.disk],
                                    IF enabled THEN "notifications_on"
                                    ELSE "notifications_off")
    IN send_message(LoadUser(w1, user_id).world, "keyboard_redrawn")

\* WeatherBot.handle_notification_toggle
handle_notification_toggle(w, user_id, enabled) ==
    LET l == LoadUser(w, user_id)
        interval == DictGet(DictGet(l.data, "notifications", EmptyRec),
                            "interval_h", DefaultInterval)
        s == update_user_notification(l.world.disk, user_id, enabled, interval,
                                      NoTime, NoFault)
        w1 == answer_callback_query([l.world EXCEPT !.disk = s.disk],
                                    IF enabled THEN "notifications_on"
                                    ELSE "notifications_off")
    IN send_message(LoadUser(w1, user_id).world, "keyboard_redrawn")

\* an interval handler that stores the value before it validates it
IntervalStoredUnvalidated(w, user_id, interval) ==
    LET l == LoadUser(w, user_id)
        notifications == DictGet(l.data, "notifications", EmptyRec)
        enabled == DictGet(notifications, "enabled", FALSE)
        old_interval == DictGet(notifications, "interval_h", DefaultInterval)
        s == update_user_notification(l.world.disk, user_id, enabled, interval,
                                      NoTime, NoFault)
        w1 == [l.world EXCEPT !.disk = s.disk]
    IN IF ~validate_notification_interval(interval)
       THEN send_message(answer_callback_query(w1, "invalid_interval"),
                         "invalid_interval")
       ELSE IF old_interval # interval
       THEN send_message(send_message(answer_callback_query(w1, "interval_changed"),
                                      "interval_changed"),
                         "keyboard_redrawn")
       ELSE send_message(answer_callback_query(w1, "interval_already_set"),
                         "keyboard_redrawn")

\* WeatherBot.handle_notification_interval
handle_notification_interval(w, user_id, interval) ==
    LET l == LoadUser(w, user_id)
        notifications == DictGet(l.data, "notifications", EmptyRec)
        enabled == DictGet(notifications, "enabled", FALSE)
        old_interval == DictGet(notifications, "interval_h", DefaultInterval)
        s == update_user_notification(l.world.disk, user_id, enabled, interval,
                                      NoTime, NoFault)
        w1 == [l.world EXCEPT !.disk = s.disk]
    IN IF ~validate_notification_interval(interval)
       THEN send_message(answer_callback_query(w, "invalid_interval"),
                         "invalid_interval")
       ELSE IF old_interval # interval
       THEN send_message(send_message(answer_callback_query(w1, "interval_changed"),
                                      "interval_changed"),
                         "keyboard_redrawn")
       ELSE send_message(answer_callback_query(w1, "interval_already_set"),
                         "keyboard_redrawn")

\* int(s) succeeds on the decimal numerals
IsInt(s) == s \in { ToString(n) : n \in -5..30 }
IntOf(s) == CHOOSE n \in -5..30 : ToString(n) = s

\* WeatherBot.handle_callback; data is <<head, rest>>: the prefix the
\* handler tests for and what follows it, or the whole string and ""
handle_callback(w, user_id, data, env) ==
    CASE data[1] = "forecast_day_" -> handle_forecast_day(w, user_id, data[2], env)
      [] data = <<"forecast_back", "">> ->
            send_message(answer_callback_query(w, ""), "main_menu")
      [] data = <<"back_to_menu", "">> ->
            send_message(answer_callback_query(w, ""), "main_menu")
      [] data[1] = "notif_toggle_" ->
            handle_notification_toggle(w, user_id, data[2] = "on")
      [] data[1] = "notif_interval_" ->
            IF IsInt(data[2])
            THEN handle_notification_interval(w, user_id, IntOf(data[2]))
            ELSE [w EXCEPT !.raised = TRUE]
      [] OTHER -> answer_callback_query(w, "")

(***************************************************************************)
(* Spec: the foreground handlers, one event at a time (the polling loop    *)
(* hands every update to its handler in turn). The provider is up or down, *)
(* per endpoint, while an event is handled.                                *)
(***************************************************************************)
\* the texts users send: every button label, a city the provider knows (also
\* with blanks around it), one it does not know, and a single letter
Labels ==
    { BtnBackToMenu, BtnBack, BtnCurrent, BtnForecast, BtnLocation, BtnCompare,
      BtnExtended, BtnNotifications, BtnHelp, BtnEnterCity, BtnEnterOtherCity }
Texts ==
    { [body |-> b, blanks |-> 0] : b \in Labels \cup {"Paris", "Atlantis", "x"} }
      \cup { [body |-> "Paris", blanks |-> 1] }

\* the callback data users send: the buttons' data, a day the forecast does
\* not have, an interval out of range, one that is no number, and data no
\* button carries
Callbacks ==
    { <<"forecast_day_", "d1">>, <<"forecast_day_", "d9">>, <<"forecast_back", "">>,
      <<"back_to_menu", "">>, <<"notif_toggle_", "on">>, <<"notif_toggle_", "off">>,
      <<"notif_interval_", "1">>, <<"notif_interval_", "2">>,
      <<"notif_interval_", "25">>, <<"notif_interval_", "abc">>, <<"settings", "">> }

\* the locations users share: a valid one (in Paris, not the point the
\* provider's gazetteer has for the city), one with the latitude and one
\* with the longitude out of range, none
Locations == { <<11, 21>>, <<91, 0>>, <<10, 181>>, <<>> }

Calm == [geocoding |-> "up", weather |-> Up, forecast |-> Up, air_pollution |-> Up]

\* the provider's states in which only the endpoints in uses may be down
EnvsVarying(uses) ==
    { env \in [geocoding : {"up", "down"}, weather : {Up, Down},
               forecast : {Up, Down}, air_pollution : {Up, Down}] :
        \A f \in DOMAIN Calm \ uses : env[f] = Calm[f] }

\* the endpoints the handler of a text may call
TextEnvs(message_text) ==
    CASE Strip(message_text) = BtnForecast -> EnvsVarying({"forecast"})
      [] Strip(message_text) = BtnExtended -> EnvsVarying({"weather", "air_pollution"})
      [] Strip(message_text) \in Labels \ {BtnForecast, BtnExtended, BtnEnterOtherCity} ->
            {Calm}
      [] OTHER -> EnvsVarying({"geocoding", "weather"})

CallbackEnvs(data) ==
    IF data[1] = "forecast_day_" THEN EnvsVarying({"forecast"}) ELSE {Calm}

\* bot.answer_inline_query(query.id, results, cache_time=...); the call
\* may raise, which handle_inline_query logs
answer_inline_query(w, results, cache_time, raises) ==
    [w EXCEPT !.inline = Append(w.inline, [results |-> results, cache_time |-> cache_time,
                                           raised |-> raises])]

\* types.InlineQueryResultArticle for the query, titled with the payload's
\* city name
InlineQueryResultArticle(query_text, city_name) ==
    [type |-> "article", id |-> query_text, title |-> city_name]

InlineAnswersUnchecked(w, query, env, raises) ==
    LET query_text == Strip(query)
        coords == get_coordinates(w.cache, query_text, env.geocoding)
        weather == get_current_weather(w.cache, coords[1], coords[2], env.weather)
        w2 == Called([w EXCEPT !.cache = weather.cache],
                     GeocodingCalls(query_text) + weather.calls)
        result == InlineQueryResultArticle(query_text, PayloadName)
    IN IF query_text = "" \/ Len(query_text) < 2
       THEN w
       ELSE IF coords = <<>>
       THEN answer_inline_query(Called(w, GeocodingCalls(query_text)), <<>>, 300, raises)
       ELSE answer_inline_query(w2, <<result>>, 300, raises)

\* WeatherBot.handle_inline_query
handle_inline_query(w, query, env, raises) ==
    LET query_text == Strip(query)
        coords == get_coordinates(w.cache, query_text, env.geocoding)
        weather == get_current_weather(w.cache, coords[1], coords[2], env.weather)
        w2 == Called([w EXCEPT !.cache = weather.cache],
                     GeocodingCalls(query_text) + weather.calls)
        result == InlineQueryResultArticle(query_text, PayloadName)
    IN IF query_text = "" \/ Len(query_text) < 2
       THEN w
       ELSE IF coords = <<>>
       THEN Called(w, GeocodingCalls(query_text))
       ELSE IF ~Truthy(weather.result)
       THEN w2
       ELSE answer_inline_query(w2, <<result>>, 300, raises)

\* the events of a run
MaxEvents == 3

\* out: the events handled so far (n), the last one, and what the bot did
\* (calls: the requests that went out to the provider)
NoEvent ==
    [n |-> 0, event |-> "none", user |-> 0, text |-> "", data |-> <<"", "">>,
     location |-> <<>>, msgs |-> <<>>, answers |-> 0, toasts |-> <<>>,
     calls |-> 0, inline |-> <<>>, raised |-> FALSE]

Init ==
    /\ disk = [main |-> JsonFile(EmptyDoc), backup |-> MissingFile, corrupted |-> MissingFile]
    /\ cache = [k \in {} |-> NoEntry]
    /\ user_states = [u \in {} |-> EmptyRec]
    /\ out = NoEvent
    /\ ret = NoCall
    /\ RaceIdle
    /\ fetched = EmptyRec
    /\ last = EmptyRec
    /\ SweepIdle

\* the handler has returned: its effects, and what it sent
Handled(w, seen) ==
    /\ disk' = w.disk
    /\ cache' = w.cache
    /\ user_states' = w.states
    /\ out' = [seen EXCEPT !.n = out.n + 1, !.msgs = w.msgs, !.answers = w.answers,
                            !.toasts = w.toasts, !.calls = w.calls,
                            !.inline = w.inline, !.raised = w.raised]
    /\ UNCHANGED outsideBot

\* /start
HandleStart(u) ==
    /\ out.n < MaxEvents
    /\ Handled(handle_start(World(disk, cache, user_states), u),
               [NoEvent EXCEPT !.event = "start", !.user = u])

\* a text message
HandleText(u, message_text, env) ==
    /\ out.n < MaxEvents
    /\ Handled(handle_text(World(disk, cache, user_states), u, message_text, env),
               [NoEvent EXCEPT !.event = "text", !.user = u, !.text = Strip(message_text)])

\* a shared location
HandleLocation(u, location, env) ==
    /\ out.n < MaxEvents
    /\ Handled(handle_location(World(disk, cache, user_states), u, location, env),
               [NoEvent EXCEPT !.event = "location", !.user = u, !.location = location])

\* a press of an inline button
HandleCallback(u, data, env) ==
    /\ out.n < MaxEvents
    /\ Handled(handle_callback(World(disk, cache, user_states), u, data, env),
               [NoEvent EXCEPT !.event = "callback", !.user = u, !.data = data])

\* an inline query
HandleInline(u, query, env, raises) ==
    /\ out.n < MaxEvents
    /\ Handled(handle_inline_query(World(disk, cache, user_states), query, env, raises),
               [NoEvent EXCEPT !.event = "inline", !.user = u, !.text = Strip(query)])

Next ==
    \/ \E u \in Users : HandleStart(u)
    \/ \E u \in Users, t \in Texts : \E env \in TextEnvs(t) : HandleText(u, t, env)
    \/ \E u \in Users, l \in Locations, env \in EnvsVarying({"geocoding", "weather"}) :
          HandleLocation(u, l, env)
    \/ \E u \in Users, data \in Callbacks : \E env \in CallbackEnvs(data) :
          HandleCallback(u, data, env)

Spec == Init /\ [][Next]_vars

\* the last event was a back navigation: one of the two back buttons of the
\* reply keyboards, or the inline button "back_to_menu"
BackNavigation ==
    \/ out.event = "text" /\ out.text \in {BtnBackToMenu, BtnBack}
    \/ out.event = "callback" /\ out.data = <<"back_to_menu", "">>

(* C1: after a back navigation by user u is handled, user_states has no    *)
(* entry for u and the main menu was sent.                                 *)
C1_BackReturnsToIdle ==
    BackNavigation =>
        /\ out.user \notin DOMAIN user_states
        /\ out.msgs = <<"main_menu">>

(* C2: handling a callback answers it exactly once, whatever its data.     *)
C2_CallbackAnsweredOnce ==
    out.event = "callback" => out.answers = 1

\* self.user_states.get(user_id, {})
StateOf(us, user_id) == DictGet(us, user_id, EmptyRec)

\* a text that handle_text takes for a city name: no button it knows, and
\* valid as a name
IsCityName(text) ==
    text \notin Labels \ {BtnEnterOtherCity} /\ validate_city_name(text)

\* the comparison lookups among the messages of an event
ComparisonLookups(msgs) ==
    SelectSeq(msgs, LAMBDA m :
        m \in { Comparing(Strip(a), Strip(b)) : a \in Texts, b \in Texts })

(* C12: handling the text 'compare cities' leaves the user in               *)
(* waiting_for_city1; a valid city name sent in that state leaves the user *)
(* in waiting_for_city2 with city1 stored as that name; a valid name sent  *)
(* in waiting_for_city2 leaves the user with no dialog state and starts    *)
(* exactly one comparison lookup, of city1 and the name sent, in that      *)
(* order.                                                                  *)
C12_CompareFlow ==
    [][ /\ (out'.event = "text" /\ out'.text = BtnCompare) =>
              StateOf(user_states', out'.user) = [waiting_for_city1 |-> TRUE]
        /\ ( /\ out'.event = "text" /\ IsCityName(out'.text)
             /\ StateOf(user_states, out'.user) = [waiting_for_city1 |-> TRUE] ) =>
              StateOf(user_states', out'.user) =
                  [city1 |-> out'.text, waiting_for_city2 |-> TRUE]
        /\ ( /\ out'.event = "text" /\ IsCityName(out'.text)
             /\ DictGet(StateOf(user_states, out'.user), "waiting_for_city2", FALSE) ) =>
              /\ out'.user \notin DOMAIN user_states'
              /\ ComparisonLookups(out'.msgs) =
                    << Comparing(StateOf(user_states, out'.user).city1, out'.text) >>
      ]_vars

\* the three steps were taken: after "Paris" and then "Atlantis" the lookup
\* of Paris and Atlantis ran (and did not find Atlantis), the user is idle
C12_Witness ==
    /\ out.n = 3 /\ out.event = "text" /\ out.text = "Atlantis"
    /\ out.msgs = << Comparing("Paris", "Atlantis"), NotFound("Atlantis") >>
    /\ out.user \notin DOMAIN user_states

\* the event sent a message of that kind
Sent(o, m) == \E i \in 1..Len(o.msgs) : o.msgs[i] = m

(* C13: when a user whose pending state was marked as forecast flow (the   *)
(* user had no coordinates and tapped '5-day forecast') sends a valid city *)
(* name that the provider resolves, the bot sends the forecast day         *)
(* selector. (The case of the claim in which the name is sent directly.)   *)
C13_CityEntryRoutesToForecast ==
    [][ ( /\ out'.event = "text" /\ IsCityName(out'.text)
          /\ DictGet(StateOf(user_states, out'.user), "forecast_mode", FALSE)
          /\ ~Sent(out', "city_not_found") ) =>
            Sent(out', "forecast_days")
      ]_vars

(* C14: when the user to whom the forecast day selector was just shown     *)
(* presses one of its day buttons, the bot does not answer 'geolocation    *)
(* not found': the day is looked up at the coordinates the selector was    *)
(* built from, also for a user with last_lat/last_lon and no saved         *)
(* geolocation.                                                            *)
C14_DayUsesSelectorCoordinates ==
    [][ ( /\ Sent(out, "forecast_days")
          /\ out'.event = "callback" /\ out'.data[1] = "forecast_day_"
          /\ out'.user = out.user ) =>
            ~Sent(out', "no_location")
      ]_vars

(* C15: when the user to whom a forecast day was just rendered presses the *)
(* 'back' button under it (callback forecast_back), the bot sends the      *)
(* forecast day selector.                                                  *)
C15_BackShowsDaySelector ==
    [][ ( /\ Sent(out, "forecast_day")
          /\ out'.event = "callback" /\ out'.data = <<"forecast_back", "">>
          /\ out'.user = out.user ) =>
            Sent(out', "forecast_days")
      ]_vars

\* the record the store holds for a user ({} when it holds none)
UserRecord(d, u) ==
    IF UserKey(u) \in DOMAIN Records(d.main) THEN Records(d.main)[UserKey(u)]
    ELSE EmptyRec

\* the provider resolves the name: geocoding answers, and knows the city
Geocoded(city, env) == env.geocoding = "up" /\ city \in DOMAIN Places

\* the current weather at the place can be had: from the provider, or from
\* the cache
WeatherAvailable(c, pos, env) ==
    env.weather = Up \/ load_cache(c, CacheKey(pos[1], pos[2], "weather")) # "none"

(* C16: a city lookup by name (a valid name sent while no compare dialog   *)
(* is pending). If geocoding fails the bot replies 'city not found'; if    *)
(* the weather fetch fails it replies with the retry-later message; in     *)
(* both cases the user's stored record is unchanged. When both succeed the *)
(* weather block is sent and the record is the old one with last_city,     *)
(* last_lat, last_lon and last_country written, last_lat and last_lon      *)
(* being the geocoded coordinates.                                         *)
C16_CityLookup ==
    [][ ( /\ out'.event = "text" /\ IsCityName(out'.text)
          /\ ~DictGet(StateOf(user_states, out'.user), "waiting_for_city1", FALSE)
          /\ ~DictGet(StateOf(user_states, out'.user), "waiting_for_city2", FALSE) ) =>
          \A t \in { x \in Texts : Strip(x) = out'.text } : \A env \in TextEnvs(t) :
            HandleText(out'.user, t, env) =>
              IF ~Geocoded(Strip(t), env)
              THEN /\ out'.msgs = <<"searching", "city_not_found">>
                   /\ UserRecord(disk', out'.user) = UserRecord(disk, out'.user)
              ELSE IF ~WeatherAvailable(cache, Places[Strip(t)], env)
              THEN /\ out'.msgs = <<"searching", "weather_failed">>
                   /\ UserRecord(disk', out'.user) = UserRecord(disk, out'.user)
              ELSE /\ out'.msgs = <<"searching", "weather">>
                   /\ UserRecord(disk', out'.user) =
                        DictUpdate(UserRecord(disk, out'.user),
                                   [last_city |-> PayloadName,
                                    last_lat |-> Places[Strip(t)][1],
                                    last_lon |-> Places[Strip(t)][2],
                                    last_country |-> PayloadCountry])
      ]_vars

\* the user had notifications set up by /start; a lookup has succeeded and
\* the record is that one with the place written
C16_Witness ==
    /\ out.n = 3 /\ out.event = "text" /\ out.text = "Paris"
    /\ out.msgs = <<"searching", "weather">>
    /\ UserRecord(disk, out.user) =
          [notifications |-> [enabled |-> FALSE, interval_h |-> 2],
           last_city |-> "Paris", last_lat |-> 10, last_lon |-> 20,
           last_country |-> "France"]

\* latitude and longitude within the legal bounds
LegalCoordinates(location) ==
    /\ location[1] >= -90 /\ location[1] <= 90
    /\ location[2] >= -180 /\ location[2] <= 180

(* C17: a shared location. Coordinates outside latitude [-90, 90] or       *)
(* longitude [-180, 180] are rejected and the store is not written. For    *)
(* legal coordinates the saved lat and lon are the shared values after the *)
(* handler, whether the weather lookup succeeded or not, and when the      *)
(* lookup failed the user is sent the confirmation that the coordinates    *)
(* were saved.                                                             *)
C17_LocationShare ==
    [][ (out'.event = "location" /\ out'.location # <<>>) =>
          \A env \in EnvsVarying({"geocoding", "weather"}) :
            HandleLocation(out'.user, out'.location, env) =>
              IF ~LegalCoordinates(out'.location)
              THEN /\ out'.msgs = <<"invalid_coordinates">>
                   /\ disk' = disk
              ELSE /\ Get(UserRecord(disk', out'.user), "lat") = <<out'.location[1]>>
                   /\ Get(UserRecord(disk', out'.user), "lon") = <<out'.location[2]>>
                   /\ ~WeatherAvailable(cache, out'.location, env) =>
                         out'.msgs = <<"locating", "location_saved_unnamed">>
      ]_vars

\* a share of a user without a record was saved although the weather
\* lookup failed, after one other event
C17_Witness ==
    /\ out.n = 2 /\ out.event = "location" /\ out.location = <<11, 21>>
    /\ out.msgs = <<"locating", "location_saved_unnamed">>
    /\ UserRecord(disk, out.user) =
          [city |-> "Neizvestno", lat |-> 11, lon |-> 21, last_city |-> "Neizvestno",
           last_lat |-> 11, last_lon |-> 21, last_country |-> ""]

(* C18: a comparison in which geocoding fails for one of the two cities,   *)
(* or for both: after the notice that the two are being compared the bot   *)
(* sends one 'not found' message, which names a city whose geocoding       *)
(* failed, and nothing else (no comparison block).                         *)
C18_CompareNamesFailedCity ==
    [][ ( /\ out'.event = "text" /\ IsCityName(out'.text)
          /\ DictGet(StateOf(user_states, out'.user), "waiting_for_city2", FALSE)
          /\ ~FalsyStr(Get(StateOf(user_states, out'.user), "city1")) ) =>
          \A t \in { x \in Texts : Strip(x) = out'.text } : \A env \in TextEnvs(t) :
            LET city1 == StateOf(user_states, out'.user).city1
                city2 == out'.text
                failed == { c \in {city1, city2} : ~Geocoded(c, env) }
            IN (HandleText(out'.user, t, env) /\ failed # {}) =>
                 \E c \in failed :
                    out'.msgs = << Comparing(city1, city2), NotFound(c) >>
      ]_vars

\* the first city of the comparison was not resolved, the second is one the
\* provider knows: the message names the first
C18_Witness ==
    /\ out.n = 3 /\ out.event = "text" /\ out.text = "Paris"
    /\ out.msgs = << Comparing("Atlantis", "Paris"), NotFound("Atlantis") >>

(***************************************************************************)
(* SpecSettings: the notification settings of users whose records an       *)
(* earlier run left in the store: the menu is opened and its inline        *)
(* buttons are pressed, also those of a keyboard drawn earlier.            *)
(***************************************************************************)
\* user 1 has no record, the record /start creates, a location and no
\* settings, or settings with a notification already sent
SettingsRecs ==
    { SweepRec(FALSE, 2, <<>>, NoTime), [city |-> "Paris", lat |-> 10, lon |-> 20],
      SweepRec(TRUE, 1, <<10, 20>>, 300), SweepRec(FALSE, 6, <<10, 20>>, 301) }

\* user 2 has notifications every two hours
SettingsDocs ==
    { [k \in {"2"} |-> SweepRec(TRUE, 2, <<10, 20>>, 0)] } \cup
    { [k \in {"1", "2"} |-> IF k = "1" THEN r ELSE SweepRec(TRUE, 2, <<10, 20>>, 0)] :
        r \in SettingsRecs }

\* the buttons of the settings keyboard, and intervals no button carries
SettingsCallbacks ==
    { <<"notif_toggle_", "on">>, <<"notif_toggle_", "off">>,
      <<"notif_interval_", "1">>, <<"notif_interval_", "2">>,
      <<"notif_interval_", "6">>, <<"notif_interval_", "24">>,
      <<"notif_interval_", "0">>, <<"notif_interval_", "25">> }

SettingsInit ==
    /\ disk \in { [main |-> JsonFile(doc), backup |-> MissingFile,
                    corrupted |-> MissingFile] : doc \in SettingsDocs }
    /\ cache = [k \in {} |-> NoEntry]
    /\ user_states = [u \in {} |-> EmptyRec]
    /\ out = NoEvent
    /\ ret = NoCall
    /\ RaceIdle
    /\ fetched = EmptyRec
    /\ last = EmptyRec
    /\ SweepIdle

SettingsNext ==
    \/ \E u \in Users, data \in SettingsCallbacks : HandleCallback(u, data, Calm)
    \/ \E u \in Users : HandleText(u, [body |-> BtnNotifications, blanks |-> 0], Calm)

SpecSettings == SettingsInit /\ [][SettingsNext]_vars

\* the settings as every reader of the record takes them: enabled is False
\* and interval_h is 2 where none is stored; last_sent may be absent
Settings(d, u) == DictGet(UserRecord(d, u), "notifications", EmptyRec)
EnabledOf(d, u) == DictGet(Settings(d, u), "enabled", FALSE)
IntervalOf(d, u) == DictGet(Settings(d, u), "interval_h", DefaultInterval)
LastSentOf(d, u) == Get(Settings(d, u), "last_sent")

\* the step handles a toggle callback
ToggleStep == out'.event = "callback" /\ out'.data[1] = "notif_toggle_"

(* C19 as stated: handling a notification toggle callback flips the stored *)
(* enabled flag and leaves interval_h and last_sent unchanged.             *)
C19_ToggleFlips ==
    [][ ToggleStep =>
          /\ EnabledOf(disk', out'.user) = ~EnabledOf(disk, out'.user)
          /\ IntervalOf(disk', out'.user) = IntervalOf(disk, out'.user)
          /\ LastSentOf(disk', out'.user) = LastSentOf(disk, out'.user)
      ]_vars

(* C19 amended: handling notif_toggle_on stores enabled = true and         *)
(* notif_toggle_off stores enabled = false, whatever the flag was (a flip  *)
(* exactly when the button pressed is the one the menu shows for the       *)
(* stored flag); interval_h (2 when none was stored) and last_sent are     *)
(* unchanged.                                                              *)
C19_ToggleSets ==
    [][ ToggleStep =>
          /\ Get(Settings(disk', out'.user), "enabled") = << out'.data[2] = "on" >>
          /\ Get(Settings(disk', out'.user), "interval_h") =
                << IntervalOf(disk, out'.user) >>
          /\ LastSentOf(disk', out'.user) = LastSentOf(disk, out'.user)
      ]_vars

\* user 1, notified before and on an hourly interval, pressed 'off' and
\* then 'off' again on the keyboard drawn before: disabled, the interval
\* and last_sent as they were
C19_Witness ==
    /\ out.n = 2 /\ out.event = "callback" /\ out.data = <<"notif_toggle_", "off">>
    /\ out.user = 1
    /\ Settings(disk, 1) = [enabled |-> FALSE, interval_h |-> 1, last_sent |-> 300]
    /\ out.toasts = <<"notifications_off">>

\* the messages of an event other than the redrawing of the inline keyboard
\* in place (edit_message_reply_markup sends no message)
Replies(o) == SelectSeq(o.msgs, LAMBDA m : m # "keyboard_redrawn")

(* C20: handling notif_interval_<N>. If N is outside 1..24 the user's      *)
(* stored record is unchanged and the error toast is answered. If N is in  *)
(* 1..24 the stored interval_h is N afterwards while enabled and last_sent *)
(* keep their values, and when N equals the current interval the callback  *)
(* is answered with the 'already set' toast and no message is sent.        *)
C20_IntervalChange ==
    [][ ( /\ out'.event = "callback" /\ out'.data[1] = "notif_interval_"
          /\ IsInt(out'.data[2]) ) =>
          LET N == IntOf(out'.data[2])
          IN IF N < 1 \/ N > 24
             THEN /\ UserRecord(disk', out'.user) = UserRecord(disk, out'.user)
                  /\ out'.toasts = <<"invalid_interval">>
             ELSE /\ Get(Settings(disk', out'.user), "interval_h") = <<N>>
                  /\ EnabledOf(disk', out'.user) = EnabledOf(disk, out'.user)
                  /\ LastSentOf(disk', out'.user) = LastSentOf(disk, out'.user)
                  /\ N = IntervalOf(disk, out'.user) =>
                        /\ out'.toasts = <<"interval_already_set">>
                        /\ Replies(out') = <<>>
      ]_vars

\* user 1, enabled and notified before on an hourly interval, has the
\* interval at 24 hours and pressed 24 once more, as the third event
C20_Witness ==
    /\ out.n = 3 /\ out.event = "callback" /\ out.data = <<"notif_interval_", "24">>
    /\ out.user = 1
    /\ out.toasts = <<"interval_already_set">> /\ out.msgs = <<"keyboard_redrawn">>
    /\ Settings(disk, 1) = [enabled |-> TRUE, interval_h |-> 24, last_sent |-> 300]

\* the user has no pending dialog state: none of the flags handle_text tests
NoPendingState(st) ==
    /\ ~DictGet(st, "waiting_for_city", FALSE)
    /\ ~DictGet(st, "waiting_for_city1", FALSE)
    /\ ~DictGet(st, "waiting_for_city2", FALSE)

(* C21: a text that is no button label handle_text recognises, from a user *)
(* with no pending dialog state. If its stripped length is at least 2 it   *)
(* is looked up as a city name (the search notice is sent and a geocoding  *)
(* request goes out); otherwise the only reply is 'command not             *)
(* understood' with the main menu, no request goes to the provider and the *)
(* store is not written.                                                   *)
C21_FreeTextIsCity ==
    [][ ( /\ out'.event = "text"
          /\ out'.text \notin Labels \ {BtnEnterOtherCity}
          /\ NoPendingState(StateOf(user_states, out'.user)) ) =>
          IF Len(out'.text) >= 2
          THEN /\ out'.msgs[1] = "searching" /\ Len(out'.msgs) = 2
               /\ out'.calls >= 1
          ELSE /\ out'.msgs = <<"not_understood">>
               /\ out'.calls = 0
               /\ disk' = disk /\ cache' = cache
      ]_vars

\* a user who has looked up a city and is idle sent a single letter: the
\* reply is 'not understood', nothing was requested
C21_Witness ==
    /\ out.n = 2 /\ out.event = "text" /\ out.text = "x"
    /\ out.msgs = <<"not_understood">> /\ out.calls = 0
    /\ out.user \notin DOMAIN user_states
    /\ Get(UserRecord(disk, out.user), "last_city") = <<"Paris">>

(* C22: when the user to whom the current-weather prompt with a saved      *)
(* geolocation was just shown taps its option 'enter a different city',    *)
(* the user is left in waiting_for_city, as after 'enter a city', and the  *)
(* label is not looked up as a city name.                                  *)
C22_EnterOtherCityIsButton ==
    [][ ( /\ Sent(out, "current_prompt_saved")
          /\ out'.event = "text" /\ out'.text = BtnEnterOtherCity
          /\ out'.user = out.user ) =>
            /\ StateOf(user_states', out'.user) = [waiting_for_city |-> TRUE]
            /\ ~Sent(out', "searching")
      ]_vars

(***************************************************************************)
(* SpecRender: the pure computations behind what the bot displays -- the   *)
(* forecast day selector, the air-quality analysis and the wind direction  *)
(* -- applied to inputs the provider can send.  ret records the call.      *)
(***************************************************************************)

\* the longest forecast list whose periods come in any order
MaxPeriods == 4

\* dates are proleptic Gregorian ordinals (date.toordinal()); 738942 is
\* Monday 2024-02-26
FirstDate == 738942

\* a forecast period: dt_txt is <<date, hour>> for "YYYY-MM-DD HH:MM:SS",
\* <<>> for an empty string, and may be absent
Period(date, hour) == [dt_txt |-> <<date, hour>>]

Periods ==
    { Period(d, 0) : d \in FirstDate .. FirstDate + 2 } \cup { [dt_txt |-> <<>>], EmptyRec }

\* k consecutive dates from start, per periods a date, forwards or backwards
Consecutive(start, k, per, forwards) ==
    [i \in 1 .. k * per |->
        LET j == (i - 1) \div per
        IN Period(IF forwards THEN start + j ELSE start + k - 1 - j,
                  3 * ((i - 1) % per))]

Forecasts ==
    UNION { [1 .. n -> Periods] : n \in 0 .. MaxPeriods } \cup
    { Consecutive(FirstDate + s, k, per, fw) :
        s \in 0 .. 6, k \in 5 .. 7, per \in 1 .. 2, fw \in BOOLEAN }

\* datetime.strptime(dt_str, "%Y-%m-%d %H:%M:%S").strftime("%Y-%m-%d")
DayKey(dt_str) == dt_str[1]

\* date.weekday(): Monday is 0
weekday(date) == (date + 6) % 7

day_names ==
    <<"Ponedelnik", "Vtornik", "Sreda", "Chetverg", "Pyatnitsa", "Subbota",
      "Voskresenye">>

\* the keys of days_forecast, in insertion order, after the loop over the
\* periods from the i-th on
RECURSIVE GroupByDay(_, _, _)
GroupByDay(forecast, i, keys) ==
    IF i > Len(forecast)
    THEN keys
    ELSE LET dt_str == Get(forecast[i], "dt_txt")
             known == { keys[j] : j \in 1 .. Len(keys) }
         IN GroupByDay(forecast, i + 1,
                IF dt_str # <<>> /\ dt_str[1] # <<>> /\ DayKey(dt_str[1]) \notin known
                THEN Append(keys, DayKey(dt_str[1]))
                ELSE keys)

DayButton(i, day_key) ==
    [text |-> <<i, day_names[weekday(day_key) + 1]>>,
     callback_data |-> <<"forecast_day", day_key>>]

BackButton == [text |-> <<0, "Nazad">>, callback_data |-> <<"forecast_back">>]

DaySelectorUncapped(forecast) ==
    LET keys == GroupByDay(forecast, 1, <<>>)
    IN [i \in 1 .. Len(keys) + 1 |->
           IF i <= Len(keys) THEN DayButton(i, keys[i]) ELSE BackButton]

\* the inline keyboard handle_forecast_request builds from a forecast
DaySelector(forecast) ==
    LET keys == GroupByDay(forecast, 1, <<>>)
        first == SubSeq(keys, 1, IF Len(keys) < 5 THEN Len(keys) ELSE 5)
    IN [i \in 1 .. Len(first) + 1 |->
           IF i <= Len(first) THEN DayButton(i, first[i]) ELSE BackButton]

\* concentrations are in hundredths of a microgram per cubic metre; the
\* provider sends any subset of the pollutants
Pm25Values ==
    {0, 1, 1199, 1200, 1201, 3499, 3500, 3501, 5499, 5500, 5501, 14999, 15000, 15001,
     40000}

ComponentMaps ==
    { [k \in ks |-> IF k = "pm2_5" THEN v ELSE IF k = "pm10" THEN w ELSE 7] :
        ks \in SUBSET {"pm2_5", "pm10", "co"}, v \in Pm25Values, w \in {0, 20000} }

\* utils.translate_pollution_status: the localized tier label
translate_pollution_status(status) == "ru " \o status

\* components.get(k, 0)
GetOr0(components, k) == IF k \in DOMAIN components THEN components[k] ELSE 0

AnalyzeStrictBreakpoints(components, extended) ==
    IF components = EmptyRec
    THEN [status |-> "Neizvestno", status_ru |-> "Neizvestno", aqi |-> 0]
    ELSE LET pm25 == GetOr0(components, "pm2_5")
             pm10 == GetOr0(components, "pm10")
             tier == IF pm25 < 1200 THEN <<"Good", 1>>
                     ELSE IF pm25 < 3500 THEN <<"Fair", 2>>
                     ELSE IF pm25 < 5500 THEN <<"Moderate", 3>>
                     ELSE IF pm25 < 15000 THEN <<"Poor", 4>>
                     ELSE <<"Very Poor", 5>>
             result == [status |-> tier[1],
                        status_ru |-> translate_pollution_status(tier[1]),
                        aqi |-> tier[2], pm25 |-> pm25, pm10 |-> pm10]
         IN IF extended
            THEN DictUpdate(result,
                     [components |->
                         [k \in {"co", "no", "no2", "o3", "so2", "pm2_5", "pm10", "nh3"} |->
                             GetOr0(components, k)]])
            ELSE result

\* WeatherAPI.analyze_air_pollution; `not components` holds of an empty
\* map, which is what the caller passes when the sample has none
analyze_air_pollution(components, extended) ==
    IF components = EmptyRec
    THEN [status |-> "Neizvestno", status_ru |-> "Neizvestno", aqi |-> 0]
    ELSE LET pm25 == GetOr0(components, "pm2_5")
             pm10 == GetOr0(components, "pm10")
             tier == IF pm25 <= 1200 THEN <<"Good", 1>>
                     ELSE IF pm25 <= 3500 THEN <<"Fair", 2>>
                     ELSE IF pm25 <= 5500 THEN <<"Moderate", 3>>
                     ELSE IF pm25 <= 15000 THEN <<"Poor", 4>>
                     ELSE <<"Very Poor", 5>>
             result == [status |-> tier[1],
                        status_ru |-> translate_pollution_status(tier[1]),
                        aqi |-> tier[2], pm25 |-> pm25, pm10 |-> pm10]
         IN IF extended
            THEN DictUpdate(result,
                     [components |->
                         [k \in {"co", "no", "no2", "o3", "so2", "pm2_5", "pm10", "nh3"} |->
                             GetOr0(components, k)]])
            ELSE result

\* bearings are in half degrees: 45 is 22.5 degrees, 720 is 360 degrees
wind_directions ==
    << <<0, 45, "N">>, <<45, 135, "NE">>, <<135, 225, "E">>, <<225, 315, "SE">>,
       <<315, 405, "S">>, <<405, 495, "SW">>, <<495, 585, "W">>, <<585, 675, "NW">>,
       <<675, 720, "N">> >>

\* the provider's wind.deg: <<b>>, or <<>> when the payload has none ('N/A')
Bearings == { <<b>> : b \in 0 .. 720 } \cup { <<>> }

\* the direction handle_city_weather renders: the first range that holds
\* the bearing, '?' when none does
wind_dir(wind_deg) ==
    LET matches == { i \in DOMAIN wind_directions :
                       /\ wind_deg # <<>>
                       /\ \/ /\ wind_directions[i][1] <= wind_deg[1]
                             /\ wind_deg[1] < wind_directions[i][2]
                          \/ wind_directions[i][1] = 0 /\ wind_deg[1] = 0 }
    IN IF matches = {}
       THEN "?"
       ELSE wind_directions[CHOOSE i \in matches : \A j \in matches : i <= j][3]

\* a call waiting to be made
Pending(fn, arg) == [op |-> "pending", fn |-> fn, arg |-> arg]

SelectorCalls == { Pending("day_selector", forecast) : forecast \in Forecasts }

AnalysisCalls ==
    { Pending("analyze_air_pollution", <<components, extended>>) :
        components \in ComponentMaps, extended \in BOOLEAN }

WindCalls == { Pending("wind_dir", wind_deg) : wind_deg \in Bearings }

RenderInit ==
    /\ disk = [main |-> JsonFile(EmptyDoc), backup |-> MissingFile, corrupted |-> MissingFile]
    /\ \/ ret \in SelectorCalls
       \/ ret \in AnalysisCalls
       \/ ret \in WindCalls
    /\ RaceIdle
    /\ ApiIdle
    /\ SweepIdle
    /\ BotIdle

RenderSelector ==
    /\ ret.op = "pending"
    /\ ret.fn = "day_selector"
    /\ ret' = [op |-> "day_selector", arg |-> ret.arg, result |-> DaySelector(ret.arg)]
    /\ UNCHANGED disk
    /\ UNCHANGED outsideStore

RenderAnalysis ==
    /\ ret.op = "pending"
    /\ ret.fn = "analyze_air_pollution"
    /\ ret' = [op |-> "analyze_air_pollution", arg |-> ret.arg,
               result |-> analyze_air_pollution(ret.arg[1], ret.arg[2])]
    /\ UNCHANGED disk
    /\ UNCHANGED outsideStore

RenderWind ==
    /\ ret.op = "pending"
    /\ ret.fn = "wind_dir"
    /\ ret' = [op |-> "wind_dir", arg |-> ret.arg, result |-> wind_dir(ret.arg)]
    /\ UNCHANGED disk
    /\ UNCHANGED outsideStore

RenderNext ==
    \/ RenderSelector
    \/ RenderAnalysis
    \/ RenderWind

SpecRender == RenderInit /\ [][RenderNext]_vars

\* the dates of a forecast's periods
DatesOf(forecast) ==
    { forecast[i].dt_txt[1] :
        i \in { j \in 1 .. Len(forecast) :
                  "dt_txt" \in DOMAIN forecast[j] /\ forecast[j].dt_txt # <<>> } }

\* where a date first appears in the forecast
FirstAppearance(forecast, date) ==
    CHOOSE i \in 1 .. Len(forecast) :
        /\ Get(forecast[i], "dt_txt") # <<>>
        /\ forecast[i].dt_txt # <<>>
        /\ forecast[i].dt_txt[1] = date
        /\ \A j \in 1 .. i - 1 :
              ~("dt_txt" \in DOMAIN forecast[j] /\ forecast[j].dt_txt # <<>>
                /\ forecast[j].dt_txt[1] = date)

\* how many dates appear in the forecast before this one does
Rank(forecast, date) ==
    Cardinality({ d \in DatesOf(forecast) :
                    FirstAppearance(forecast, d) < FirstAppearance(forecast, date) })

\* the Russian name of a date's day of the week: the days follow one
\* another from Monday 2024-02-26
RussianWeekday(date) ==
    LET since == (date - 738942) % 7
    IN CASE since = 0 -> "Ponedelnik" [] since = 1 -> "Vtornik" [] since = 2 -> "Sreda"
         [] since = 3 -> "Chetverg" [] since = 4 -> "Pyatnitsa" [] since = 5 -> "Subbota"
         [] since = 6 -> "Voskresenye"

\* C23: the day selector built from a forecast has one button for each of
\* the first five distinct dates of its periods, in the order the dates
\* first appear; the i-th carries forecast_day_<i-th date> and the Russian
\* name of that date's day of the week
C23_DaySelector ==
    ret.op = "day_selector" =>
        LET forecast == ret.arg
            dates == DatesOf(forecast)
            shown == { d \in dates : Rank(forecast, d) < 5 }
            buttons == { i \in 1 .. Len(ret.result) :
                           ret.result[i].callback_data[1] = "forecast_day" }
        IN /\ Cardinality(buttons) = Cardinality(shown)
           /\ buttons = 1 .. Cardinality(shown)
           /\ \A d \in shown :
                 ret.result[Rank(forecast, d) + 1] =
                     [text |-> <<Rank(forecast, d) + 1, RussianWeekday(d)>>,
                      callback_data |-> <<"forecast_day", d>>]

\* a forecast over six dates, a date repeated, out of calendar order, has
\* got its selector of five days
C23_Witness ==
    /\ ret.op = "day_selector"
    /\ Cardinality(DatesOf(ret.arg)) = 6
    /\ Len(ret.arg) = 12
    /\ ret.arg[1].dt_txt[1] > ret.arg[12].dt_txt[1]
    /\ Len(ret.result) = 6

\* the tier of a PM2.5 concentration, in hundredths
Tier(v) ==
    CASE v <= 1200 -> <<"Good", 1>>
      [] v > 1200 /\ v <= 3500 -> <<"Fair", 2>>
      [] v > 3500 /\ v <= 5500 -> <<"Moderate", 3>>
      [] v > 5500 /\ v <= 15000 -> <<"Poor", 4>>
      [] v > 15000 -> <<"Very Poor", 5>>

\* C24: the air-quality tier and index of a non-empty components map are
\* those of its PM2.5 value alone, a breakpoint value falling in the
\* lower tier; an empty map gets index 0
C24_AirQualityTiers ==
    ret.op = "analyze_air_pollution" =>
        LET components == ret.arg[1]
        IN IF components = EmptyRec
           THEN ret.result.aqi = 0
           ELSE /\ "pm2_5" \in DOMAIN components =>
                      <<ret.result.status, ret.result.aqi>> = Tier(components.pm2_5)
                /\ \A other \in ComponentMaps \ {EmptyRec} :
                      Get(other, "pm2_5") = Get(components, "pm2_5") =>
                          /\ analyze_air_pollution(other, ret.arg[2]).status = ret.result.status
                          /\ analyze_air_pollution(other, ret.arg[2]).aqi = ret.result.aqi

\* a map with PM2.5 at the breakpoint 35.00 and a high PM10 was analysed
C24_Witness ==
    /\ ret.op = "analyze_air_pollution"
    /\ Get(ret.arg[1], "pm2_5") = <<3500>>
    /\ Get(ret.arg[1], "pm10") = <<20000>>
    /\ ret.result.aqi = 2

\* the octant of a bearing of b half degrees, north covering both ends
Octant(b) ==
    CASE b < 45 -> "N" [] b >= 45 /\ b < 135 -> "NE" [] b >= 135 /\ b < 225 -> "E"
      [] b >= 225 /\ b < 315 -> "SE" [] b >= 315 /\ b < 405 -> "S"
      [] b >= 405 /\ b < 495 -> "SW" [] b >= 495 /\ b < 585 -> "W"
      [] b >= 585 /\ b < 675 -> "NW" [] b >= 675 -> "N"

\* C25: every bearing from 0 to 360 degrees is rendered as the label of
\* its octant, 360 being north again, and never as '?'
C25_WindOctant ==
    (ret.op = "wind_dir" /\ ret.arg # <<>>) =>
        /\ ret.result = Octant(ret.arg[1])
        /\ ret.result # "?"

(***************************************************************************)
(* SpecInline: inline queries, among city lookups that fill the store and  *)
(* the cache.                                                               *)
(***************************************************************************)
\* the queries typed: a city the provider knows (also with blanks around
\* it), one it does not know, a single letter, nothing
InlineQueries ==
    { [body |-> b, blanks |-> 0] : b \in {"Paris", "Atlantis", "x", ""} }
      \cup { [body |-> "Paris", blanks |-> 1] }

InlineNext ==
    \/ \E u \in Users, query \in InlineQueries, raises \in BOOLEAN :
          \E env \in EnvsVarying({"geocoding", "weather"}) :
             HandleInline(u, query, env, raises)
    \/ \E u \in Users, env \in EnvsVarying({"weather"}) :
          HandleText(u, [body |-> "Paris", blanks |-> 0], env)

SpecInline == Init /\ [][InlineNext]_vars

(* C26: an inline query is answered only when it fully succeeds. A stripped *)
(* query shorter than 2 characters, a failed geocoding or a failed weather *)
(* fetch gives no answer, sends nothing and leaves the store as it was;    *)
(* on success answer_inline_query is called once, with exactly one article *)
(* and a cache time of 300 seconds.                                        *)
C26_InlineOnlyOnSuccess ==
    [][ out'.event = "inline" =>
          \A query \in { x \in InlineQueries : Strip(x) = out'.text } :
            \A env \in EnvsVarying({"geocoding", "weather"}), raises \in BOOLEAN :
              HandleInline(out'.user, query, env, raises) =>
                IF \/ Len(Strip(query)) < 2
                   \/ ~Geocoded(Strip(query), env)
                   \/ ~WeatherAvailable(cache, Places[Strip(query)], env)
                THEN /\ out'.inline = <<>>
                     /\ out'.msgs = <<>>
                     /\ disk' = disk
                ELSE /\ Len(out'.inline) = 1
                     /\ Len(out'.inline[1].results) = 1
                     /\ out'.inline[1].results[1].type = "article"
                     /\ out'.inline[1].cache_time = 300
      ]_vars

\* a query for 'Paris' made after other events, with geocoding up and the
\* weather down and not cached, went unanswered after both lookups
C26_Witness ==
    /\ out.event = "inline" /\ out.text = "Paris"
    /\ out.n >= 2
    /\ out.inline = <<>>
    /\ out.calls = 2

(* C27: the notification loop never stops. Whatever exceptions the sweeps *)
(* raise, the worker catches them and goes on: every sweep of the run      *)
(* (MaxSweeps of them) is started after its sleep, so a sweep that raised  *)
(* is followed by the next one, and after the last the worker is asleep    *)
(* once more, never ended.                                                 *)
C27_LoopNeverStops == <>[](sweep.n = MaxSweeps /\ sweep.phase = "sleep")

\* a sweep is under way after the worker caught an exception of the one
\* before
C27_Witness ==
    /\ sweep.phase = "loop"
    /\ sweep.n = 2
    /\ sweep.caught = 1

(* C28: once a share of legal coordinates has been handled to the end, the *)
(* weather lookup having succeeded, the user's last_lat and last_lon are   *)
(* the shared latitude and longitude, the same as the saved lat and lon.   *)
C28_ShareSetsLastCoordinates ==
    [][ ( /\ out'.event = "location" /\ out'.location # <<>>
          /\ LegalCoordinates(out'.location)
          /\ Sent(out', "weather") ) =>
            /\ Get(UserRecord(disk', out'.user), "last_lat") = <<out'.location[1]>>
            /\ Get(UserRecord(disk', out'.user), "last_lon") = <<out'.location[2]>>
            /\ Get(UserRecord(disk', out'.user), "last_lat") =
                  Get(UserRecord(disk', out'.user), "lat")
            /\ Get(UserRecord(disk', out'.user), "last_lon") =
                  Get(UserRecord(disk', out'.user), "lon")
      ]_vars

(***************************************************************************)
(* SpecNotify: the notification settings from an empty store, the          *)
(* handlers that write them running next to the notification loop.         *)
(***************************************************************************)
\* both toggle buttons, and intervals in and out of range
NotifyCallbacks ==
    { <<"notif_toggle_", "on">>, <<"notif_toggle_", "off">>,
      <<"notif_interval_", "1">>, <<"notif_interval_", "24">>,
      <<"notif_interval_", "0">>, <<"notif_interval_", "25">>,
      <<"notif_interval_", "-1">> }

NotifyInit ==
    /\ disk = [main |-> JsonFile(EmptyDoc), backup |-> MissingFile, corrupted |-> MissingFile]
    /\ cache = [k \in {} |-> NoEntry]
    /\ clock = 1500000
    /\ sweep = [phase |-> "sleep", n |-> 0, all_users |-> EmptyDoc, todo |-> {},
                log |-> NoLog, caught |-> 0]
    /\ user_states = [u \in {} |-> EmptyRec]
    /\ out = NoEvent
    /\ ret = NoCall
    /\ RaceIdle
    /\ fetched = EmptyRec
    /\ last = EmptyRec

NotifyNext ==
    \/ \E u \in Users : HandleStart(u)
    \/ \E u \in Users, data \in NotifyCallbacks : HandleCallback(u, data, Calm)
    \/ \E u \in Users : HandleLocation(u, <<11, 21>>, Calm)
    \/ SweepSleep
    \/ \E k \in sweep.todo, env \in WorkerEnvs : SweepUser(k, env)
    \/ SweepEnd

SpecNotify == NotifyInit /\ [][NotifyNext]_vars

(* C29: whatever /start commands, toggles, interval callbacks with any     *)
(* integer and notification sweeps have happened, every interval_h the     *)
(* store holds is an integer from 1 to 24.                                 *)
C29_StoredIntervalInRange ==
    \A k \in DOMAIN Records(disk.main) :
        LET notifications == DictGet(Records(disk.main)[k], "notifications", EmptyRec)
        IN "interval_h" \in DOMAIN notifications =>
              notifications.interval_h \in 1 .. 24

\* a user who turned notifications on and shared a location has been sent
\* a notification by a sweep, and has just been refused the interval 25
C29_Witness ==
    /\ out.event = "callback" /\ out.data = <<"notif_interval_", "25">>
    /\ out.toasts = <<"invalid_interval">>
    /\ sweep.n >= 1
    /\ LastSentOf(disk, out.user) # <<>>
    /\ IntervalOf(disk, out.user) = 2

\* the document as the _save_data of a save_user finds it: the one on disk,
\* or the empty one the load has just put in the place of an unreadable file
BeforeSave(d) == IF d.main.kind = "json" THEN d.main ELSE JsonFile(EmptyDoc)

(* C30: after a save that reports success and whose backup copy did not    *)
(* fail, the .backup sibling holds exactly the document as it was just     *)
(* before the save wrote it; when the backup copy fails, the save is still *)
(* written and reported successful, and .backup is left as it was.         *)
C30_BackupBeforeOverwrite ==
    [][ ret'.op = "save_user" =>
          \A env \in SaveFaults :
            StSaveUser(ret'.user, ret'.data, env) =>
              /\ (ret'.ok /\ ~env.backupFails) =>
                    /\ disk'.backup = BeforeSave(disk)
                    /\ disk'.main =
                          JsonFile(MergeUser(BeforeSave(disk).doc, ret'.user, ret'.data))
              /\ (env.backupFails /\ env.write = "ok") =>
                    /\ ret'.ok
                    /\ disk'.backup = disk.backup
                    /\ disk'.main =
                          JsonFile(MergeUser(BeforeSave(disk).doc, ret'.user, ret'.data))
      ]_storeVars

\* user 2's first save succeeded on a document holding user 1's record:
\* the backup is that document, without user 2
C30_Witness ==
    /\ ret.op = "save_user" /\ ret.ok /\ ret.user = 2
    /\ disk.backup = JsonFile([k \in {"1"} |-> [city |-> "Paris"]])
    /\ disk.main.kind = "json"
    /\ DOMAIN disk.main.doc = {"1", "2"}
    /\ disk.main.doc["1"] = [city |-> "Paris"]

(* C31: /start creates the user's record, holding notifications disabled   *)
(* with an interval of 2 hours, only when the store has no record of the   *)
(* user; when it holds a non-empty one the store is left as it was; either *)
(* way the user has no dialog state afterwards.                            *)
C31_StartCreatesOnce ==
    [][ out'.event = "start" =>
          /\ UserRecord(disk, out'.user) = EmptyRec =>
                UserRecord(disk', out'.user) =
                    [notifications |-> [enabled |-> FALSE, interval_h |-> 2]]
          /\ UserRecord(disk, out'.user) # EmptyRec => disk' = disk
          /\ \A v \in Users \ {out'.user} :
                UserRecord(disk', v) = UserRecord(disk, v)
          /\ out'.user \notin DOMAIN user_states'
      ]_vars

\* /start, as third event, of a user who had turned notifications on: the
\* settings are still on, and the user has no dialog state
C31_Witness ==
    /\ out.n = 3 /\ out.event = "start"
    /\ UserRecord(disk, out.user) = [notifications |-> [enabled |-> TRUE, interval_h |-> 2]]
    /\ out.user \notin DOMAIN user_states

\* the user is being asked for a city: for a lookup, or as the first or the
\* second city of a comparison
AwaitingCity(st) ==
    \/ DictGet(st, "waiting_for_city", FALSE)
    \/ DictGet(st, "waiting_for_city1", FALSE)
    \/ DictGet(st, "waiting_for_city2", FALSE)

(* C32: while the user is being asked for a city, a text that is no button *)
(* label and is shorter than 2 characters once stripped gets exactly one   *)
(* corrective message; every dialog state, a stored city1 included, stays  *)
(* as it was, no request goes to the provider and nothing is written.      *)
C32_InvalidCityKeepsDialog ==
    [][ ( /\ out'.event = "text"
          /\ out'.text \notin Labels
          /\ Len(out'.text) < 2
          /\ AwaitingCity(StateOf(user_states, out'.user)) ) =>
            /\ out'.msgs = <<"invalid_city">>
            /\ user_states' = user_states
            /\ out'.calls = 0
            /\ disk' = disk
            /\ cache' = cache
      ]_vars

\* a single letter was sent for the second city of a comparison: the
\* corrective message went out and city1 is still stored
C32_Witness ==
    /\ out.event = "text" /\ out.text = "x"
    /\ out.msgs = <<"invalid_city">>
    /\ StateOf(user_states, out.user) = [city1 |-> "Paris", waiting_for_city2 |-> TRUE]

\* the dialog states of the conversation, absence (idle) apart
DialogStates ==
    { [waiting_for_city |-> TRUE],
      [waiting_for_city |-> TRUE, forecast_mode |-> TRUE],
      [waiting_for_city |-> TRUE, extended_mode |-> TRUE],
      [waiting_for_city1 |-> TRUE] } \cup
    { [city1 |-> Strip(t), waiting_for_city2 |-> TRUE] :
        t \in { x \in Texts : Len(Strip(x)) >= 2 } }

(* C33: every user's dialog state is absent, or waiting_for_city alone or  *)
(* tagged forecast_mode or extended_mode, or waiting_for_city1, or         *)
(* waiting_for_city2 together with a city1 that is a valid city name.      *)
C33_DialogStateShape ==
    \A u \in DOMAIN user_states :
        /\ user_states[u] \in DialogStates
        /\ DictGet(user_states[u], "waiting_for_city2", FALSE) =>
              /\ "city1" \in DOMAIN user_states[u]
              /\ Len(user_states[u].city1) >= 2

\* one user is being asked for the second city of a comparison, the other
\* for the city of a forecast
C33_Witness ==
    /\ DOMAIN user_states = {1, 2}
    /\ user_states[1] = [city1 |-> "Paris", waiting_for_city2 |-> TRUE]
    /\ user_states[2] = [waiting_for_city |-> TRUE, forecast_mode |-> TRUE]

(* C34: a load of the document that runs concurrently with a save never    *)
(* takes the corruption path: no step of either call renames the document  *)
(* to .corrupted and puts an empty document in its place.                  *)
C34_LoadNeverResets ==
    [][~(/\ disk.main.kind # "missing"
         /\ disk'.corrupted = disk.main
         /\ disk'.main = JsonFile(EmptyDoc))]_vars

(* C35: while a user's stored enabled flag is false (notif_toggle_off was   *)
(* handled and stored), no step of the notification loop sets it back to   *)
(* true or changes the stored interval_h.                                  *)
C35_SweepKeepsSwitchedOff ==
    [][ sweep' # sweep =>
          \A u \in Users :
              Get(Settings(disk, u), "enabled") = <<FALSE>> =>
                 /\ Get(Settings(disk', u), "enabled") = <<FALSE>>
                 /\ Get(Settings(disk', u), "interval_h") =
                       Get(Settings(disk, u), "interval_h")
      ]_vars

(***************************************************************************)
(* SpecSpacing: the notification loop next to the settings callbacks, with *)
(* a store whose writes may fail. hist keeps, per user, the time of the    *)
(* last notification send_message delivered.                               *)
(***************************************************************************)
\* both users have notifications on, every hour and every two hours, and a
\* shared location; none was sent yet
SpacingDoc ==
    [k \in {"1", "2"} |->
        SweepRec(TRUE, IF k = "1" THEN 1 ELSE 2, <<10, 20>>, NoTime)]

\* the provider answers at once; the delivery goes through or raises; the
\* store writes, cannot open the document, or fails while writing it
SpacingEnvs ==
    { [script |-> <<Response(200, "A")>>, sendRaises |-> b, took |-> 0,
       store |-> [NoFault EXCEPT !.write = w]] :
        b \in BOOLEAN, w \in {"ok", "open", "dump"} }

\* the settings a user changes while the loop runs
SpacingCallbacks == { <<"notif_toggle_", "off">>, <<"notif_interval_", "24">> }

SpacingInit ==
    /\ disk = [main |-> JsonFile(SpacingDoc), backup |-> MissingFile,
               corrupted |-> MissingFile]
    /\ cache = [k \in {} |-> NoEntry]
    /\ clock = 1500000
    /\ sweep = [phase |-> "sleep", n |-> 0, all_users |-> EmptyDoc, todo |-> {},
                log |-> NoLog, caught |-> 0]
    /\ user_states = [u \in {} |-> EmptyRec]
    /\ out = NoEvent
    /\ ret = NoCall
    /\ RaceIdle
    /\ fetched = EmptyRec
    /\ last = EmptyRec

\* one iteration of the loop; a delivery is noted with the time at which
\* send_message returned
SpacedUser(user_id_str, env) ==
    /\ SweepItem(user_id_str, env)
    /\ hist' = IF sweep'.log[user_id_str].delivered
               THEN [k \in (DOMAIN hist) \cup {user_id_str} |->
                        IF k = user_id_str THEN clock' ELSE hist[k]]
               ELSE hist
    /\ UNCHANGED <<ret, pc, loc, job, fetched, last, botVars>>

SpacingNext ==
    \/ \E u \in Users, data \in SpacingCallbacks : HandleCallback(u, data, Calm)
    \/ SweepSleep
    \/ \E k \in sweep.todo, env \in SpacingEnvs : SpacedUser(k, env)
    \/ SweepEnd

SpecSpacing == SpacingInit /\ [][SpacingNext]_vars

(* C36: whatever the interleaving of the settings callbacks and the        *)
(* notification loop, and also when a store write fails, a notification    *)
(* delivered to a user who was delivered one before comes at least         *)
(* interval_h hours after it, interval_h being the stored one at the time  *)
(* of the second send.                                                     *)
C36_NotificationsSpaced ==
    [][ \A k \in DOMAIN hist :
          hist'[k] # hist[k] =>
             hist'[k] - hist[k] >= HoursMs(IntervalOf(disk, KeyUser(k)))
      ]_vars

(***************************************************************************)
(* SpecIsolation: every kind of event, from two users, one at a time, the  *)
(* provider up.                                                            *)
(***************************************************************************)
IsolationNext ==
    \/ \E u \in Users : HandleStart(u)
    \/ \E u \in Users, t \in Texts : HandleText(u, t, Calm)
    \/ \E u \in Users : HandleLocation(u, <<11, 21>>, Calm)
    \/ \E u \in Users, data \in Callbacks : HandleCallback(u, data, Calm)
    \/ \E u \in Users, query \in InlineQueries : HandleInline(u, query, Calm, FALSE)

SpecIsolation == Init /\ [][IsolationNext]_vars

\* user v has the same dialog state (or none) and the same stored record
\* (or none) in both
SameFor(v, us1, d1, us2, d2) ==
    /\ (v \in DOMAIN us1) = (v \in DOMAIN us2)
    /\ StateOf(us1, v) = StateOf(us2, v)
    /\ (UserKey(v) \in DOMAIN Records(d1.main)) = (UserKey(v) \in DOMAIN Records(d2.main))
    /\ UserRecord(d1, v) = UserRecord(d2, v)

(* C37: handling a command, a text, a location, a callback or an inline    *)
(* query from user u leaves the dialog state and the stored record of      *)
(* every other user as they were.                                          *)
C37_PerUserIsolation ==
    [][ out'.n # out.n =>
          \A v \in Users \ {out'.user} :
              SameFor(v, user_states, disk, user_states', disk')
      ]_vars

\* user 2 has a stored record and is being asked for the first city of a
\* comparison; user 1's text has just been handled and stored a record
C37_Witness ==
    /\ out.event = "text" /\ out.user = 1
    /\ UserRecord(disk, 1) # EmptyRec
    /\ UserRecord(disk, 2) # EmptyRec
    /\ StateOf(user_states, 2) = [waiting_for_city1 |-> TRUE]

(***************************************************************************)
(* SpecCoords: forecast and extended-data requests by a user whose record  *)
(* holds a shared location, the coordinates of the last city asked for,    *)
(* both or neither; places on the equator and on the prime meridian        *)
(* included.                                                               *)
(***************************************************************************)
\* the location a user shared, and the coordinates of the last lookup
SavedPairs == { <<>>, <<11, 21>>, <<0, 21>>, <<11, 0>> }
LastPairs == { <<>>, <<10, 20>>, <<0, 20>>, <<10, 0>> }

\* the record /start, handle_location and handle_city_weather leave
CoordRec(saved, lastp) ==
    LET started == [notifications |-> [enabled |-> FALSE, interval_h |-> DefaultInterval]]
        a == IF saved = <<>> THEN EmptyRec
             ELSE [city |-> "Paris", lat |-> saved[1], lon |-> saved[2]]
        b == IF lastp = <<>> THEN EmptyRec
             ELSE [last_city |-> "Paris", last_lat |-> lastp[1], last_lon |-> lastp[2],
                   last_country |-> "France"]
    IN DictUpdate(DictUpdate(started, a), b)

CoordsInit ==
    /\ \E saved \in SavedPairs, lastp \in LastPairs :
          disk = [main |-> JsonFile([k \in {"1"} |-> CoordRec(saved, lastp)]),
                  backup |-> MissingFile, corrupted |-> MissingFile]
    /\ cache = [k \in {} |-> NoEntry]
    /\ user_states = [u \in {} |-> EmptyRec]
    /\ out = NoEvent
    /\ ret = NoCall
    /\ RaceIdle
    /\ fetched = EmptyRec
    /\ last = EmptyRec
    /\ SweepIdle

CoordsNext ==
    \/ \E u \in Users, env \in EnvsVarying({"forecast"}) :
          HandleText(u, [body |-> BtnForecast, blanks |-> 0], env)
    \/ \E u \in Users, env \in EnvsVarying({"weather", "air_pollution"}) :
          HandleText(u, [body |-> BtnExtended, blanks |-> 0], env)
    \/ \E u \in Users, env \in EnvsVarying({"geocoding"}) :
          HandleLocation(u, <<0, 21>>, env)

SpecCoords == CoordsInit /\ [][CoordsNext]_vars

\* the coordinate pairs a record holds whole: the saved one, the last one
StoredPairs(rec) ==
    { <<rec[f[1]], rec[f[2]]>> :
        f \in { g \in { <<"lat", "lon">>, <<"last_lat", "last_lon">> } :
                   g[1] \in DOMAIN rec /\ g[2] \in DOMAIN rec } }

\* the request asked for a place instead of fetching
Prompted(o) == Sent(o, "forecast_need_place") \/ Sent(o, "extended_need_place")

(* C38: a forecast or extended-data request asks for a city exactly when   *)
(* the user's record holds no whole pair of coordinates, a coordinate of 0 *)
(* counting as present; otherwise every lookup it makes is at the saved    *)
(* pair or at the last pair, never at a mix of the two.                    *)
C38_StoredCoordinatesUsed ==
    [][ (out'.event = "text" /\ out'.text \in {BtnForecast, BtnExtended}) =>
          LET stored == StoredPairs(UserRecord(disk, out'.user))
          IN /\ Prompted(out') <=> stored = {}
             /\ \A key \in (DOMAIN cache') \ (DOMAIN cache) :
                    <<key[1], key[2]>> \in stored
      ]_vars

====
